---- MODULE Spec2Model ----
(***************************************************************************)
(* Game-session state machine of src/server/core/game.ts.                  *)
(*                                                                         *)
(* The repository holds two builds of the core: the hidden-object game     *)
(* ("ho", game.ts lines 1-291) and the social-deduction game ("sd",        *)
(* game.ts lines 292-666).  A deployment runs one of them; `variant` says  *)
(* which.  The session is one JSON value in the key-value store; `game`    *)
(* is that stored value (Null when redis.get returns null).                *)
(*                                                                         *)
(* Player ids are opaque strings that the code only compares for equality; *)
(* they are modelled as positive integers.  `username` and the random      *)
(* spawn `position` of a player are written once and never read by the     *)
(* core, and are left out of the player record.  An optional field that is *)
(* `undefined` in the code (dropped by JSON.stringify, read back as        *)
(* undefined) is modelled by a value outside the field's range: 0 for an   *)
(* id, -1 for a number or a time, "" for the winner.                       *)
(***************************************************************************)
EXTENDS Integers, Sequences, FiniteSets, TLC

VARIABLES
    variant,  \* "ho" | "sd": which build of core/game.ts serves the post
    game,     \* the stored session, or Null
    now,      \* Date.now(), in milliseconds
    last,     \* the last core call and what it returned
    reqs      \* requests that have read the session and not yet written it

vars == <<variant, game, now, last, reqs>>

----
\* Program constants.

TIME_LIMIT == 300
MIN_PLAYERS_HO == 1
MAX_PLAYERS_HO == 20
DISCUSSION_TIME == 45
VOTING_TIME == 30
MIN_PLAYERS_SD == 4
MAX_PLAYERS_SD == 10
TOTAL_TASKS == 3

----
\* Bounds of the model.

\* Players that may ask to join in the social-deduction play specifications.
MaxPlayersSD == 4

\* Players that may join in the hidden-object play specification.
MaxPlayersHO == 2

\* The clock is read at multiples of ClockStep milliseconds after Epoch.
ClockStep == 150000

MaxClockSteps == 2

Epoch == ClockStep

\* Requests that may be in flight at once in the specifications of interleaved requests.
MaxReqs == 2

\* An id that never joins: a vote or an elimination may name it.
GhostId == MAX_PLAYERS_HO + MAX_PLAYERS_SD

----
\* Values shared by both builds.

Null == [phase |-> "none"]

NoCall == [op |-> "init", by |-> 0, arg |-> 0, ok |-> TRUE, flag |-> FALSE, val |-> 0]

Call(op, by, arg, ok, flag, val) ==
    [op |-> op, by |-> by, arg |-> arg, ok |-> ok, flag |-> flag, val |-> val]

\* What a handler hands back: the value it returns (`ok` is "not null"), whether it
\* called updateGame, and the session it wrote (or would return).
Res(ok, write, g, flag, val) ==
    [ok |-> ok, write |-> write, g |-> g, flag |-> flag, val |-> val]

Max(a, b) == IF a >= b THEN a ELSE b

\* Object.keys(players).length
PlayerCount(g) == Len(g.order)

\* gameState.players[id] is defined
HasPlayer(g, id) == id \in DOMAIN g.players

\* The elements of a sequence, as a set.
Range(s) == {s[i] : i \in DOMAIN s}

----
\* Social-deduction build (game.ts lines 292-666).

SDNewPlayer ==
    [role |-> "crewmate", status |-> "alive", tasksCompleted |-> 0,
     totalTasks |-> TOTAL_TASKS, hasVoted |-> FALSE, votedFor |-> 0]

SDCreateGame(hostId) ==
    [phase |-> "waiting",
     order |-> <<hostId>>,
     players |-> (hostId :> SDNewPlayer),
     host |-> hostId,
     winner |-> "",
     discussionTimeLeft |-> -1,
     votingTimeLeft |-> -1,
     meetingCaller |-> 0,
     eliminatedPlayer |-> 0,
     gameStartTime |-> -1]

\* players[playerId] = player: a new key goes last in insertion order.
SDPutPlayer(g, id, rec) ==
    [g EXCEPT !.players = (id :> rec) @@ g.players,
              !.order = IF id \in DOMAIN g.players THEN g.order ELSE Append(g.order, id)]

SDJoinFull(g) == PlayerCount(g) >= MAX_PLAYERS_SD

\* The test of the hidden-object build's laxer rule: joined until it ended.
SDJoinOpenUntilEnded(g) == g.phase # "ended"

\* A session is joined only before it starts (the negation of the test of line 375).
SDJoinOpen(g) == g.phase = "waiting"

SDJoinGame(g, playerId) ==
    IF g = Null THEN Res(FALSE, FALSE, g, FALSE, 0)
    ELSE IF ~SDJoinOpen(g) THEN Res(FALSE, FALSE, g, FALSE, 0)
    ELSE IF SDJoinFull(g) THEN Res(FALSE, FALSE, g, FALSE, 0)
    ELSE IF HasPlayer(g, playerId) THEN Res(TRUE, FALSE, g, FALSE, 0)
    ELSE Res(TRUE, TRUE, SDPutPlayer(g, playerId, SDNewPlayer), FALSE, 0)

\* Math.ceil in place of Math.floor.
ImpostorCountCeil(playerCount) == Max(1, (playerCount + 3) \div 4)

\* Math.max(1, Math.floor(playerCount / 4))
ImpostorCount(playerCount) == Max(1, playerCount \div 4)

\* playerIds.sort(() => Math.random() - 0.5).slice(0, impostorCount): the first
\* impostorCount ids of some permutation, that is, any set of that many ids.
ImpostorChoices(g) ==
    {S \in SUBSET (DOMAIN g.players) : Cardinality(S) = ImpostorCount(PlayerCount(g))}

SDAssignRoles(g, impostorIds) ==
    [g EXCEPT !.players =
        [id \in DOMAIN g.players |->
            [g.players[id] EXCEPT !.role = IF id \in impostorIds THEN "impostor" ELSE "crewmate",
                                  !.hasVoted = FALSE,
                                  !.votedFor = 0]]]

\* `playerCount <= MIN_PLAYERS` in place of `playerCount < MIN_PLAYERS`.
SDMoreThanMinPlayers(g) == PlayerCount(g) > MIN_PLAYERS_SD

\* The negation of `playerCount < MIN_PLAYERS`.
SDEnoughPlayers(g) == PlayerCount(g) >= MIN_PLAYERS_SD

SDStartGame(g, playerId, impostorIds, t) ==
    IF g = Null THEN Res(FALSE, FALSE, g, FALSE, 0)
    ELSE IF g.host # playerId THEN Res(FALSE, FALSE, g, FALSE, 0)
    ELSE IF g.phase # "waiting" THEN Res(FALSE, FALSE, g, FALSE, 0)
    ELSE IF ~SDEnoughPlayers(g) THEN Res(FALSE, FALSE, g, FALSE, 0)
    ELSE Res(TRUE, TRUE,
             [SDAssignRoles(g, impostorIds) EXCEPT !.phase = "playing", !.gameStartTime = t],
             FALSE, 0)

\* Object.values(gameState.players).filter(p => p.status === 'alive'), in insertion order
AlivePlayers(g) == SelectSeq(g.order, LAMBDA id : g.players[id].status = "alive")

\* The filter without `p.status === 'alive'`.
AnyWithRole(g, role) ==
    SelectSeq(g.order, LAMBDA id : g.players[id].role = role)

AliveWithRole(g, role) ==
    SelectSeq(AlivePlayers(g), LAMBDA id : g.players[id].role = role)

\* A reset that also brings every player back into the round.
SDResetVotesAndStatus(g) ==
    [g EXCEPT !.players =
        [id \in DOMAIN g.players |->
            [g.players[id] EXCEPT !.hasVoted = FALSE, !.votedFor = 0, !.status = "alive"]]]

\* The reset without `p.votedFor = undefined`.
SDResetHasVotedOnly(g) ==
    [g EXCEPT !.players =
        [id \in DOMAIN g.players |-> [g.players[id] EXCEPT !.hasVoted = FALSE]]]

\* Object.values(gameState.players).forEach(p => { p.hasVoted = false; p.votedFor = undefined })
SDResetVotes(g) ==
    [g EXCEPT !.players =
        [id \in DOMAIN g.players |-> [g.players[id] EXCEPT !.hasVoted = FALSE, !.votedFor = 0]]]

RECURSIVE SumField(_, _, _)
SumField(g, ids, field) ==
    IF ids = <<>> THEN 0 ELSE g.players[Head(ids)][field] + SumField(g, Tail(ids), field)

SDCompleteTask(g, playerId) ==
    IF g = Null THEN Res(FALSE, FALSE, g, FALSE, 0)
    ELSE IF \/ ~HasPlayer(g, playerId)
            \/ g.players[playerId].status # "alive"
            \/ g.players[playerId].role # "crewmate"
         THEN Res(TRUE, FALSE, g, FALSE, 0)
    ELSE LET pl == g.players[playerId]
             g1 == IF pl.tasksCompleted < pl.totalTasks
                   THEN [g EXCEPT !.players[playerId].tasksCompleted = @ + 1]
                   ELSE g
             crewmates == AliveWithRole(g1, "crewmate")
             totalTasks == SumField(g1, crewmates, "totalTasks")
             completedTasks == SumField(g1, crewmates, "tasksCompleted")
             g2 == IF completedTasks >= totalTasks
                   THEN [g1 EXCEPT !.phase = "ended", !.winner = "crewmates"]
                   ELSE g1
         IN Res(TRUE, TRUE, g2, TRUE, 0)

\* The guard without `player.status !== 'alive'`.
SDMeetingGuardAnyStatus(g, playerId) ==
    /\ HasPlayer(g, playerId)
    /\ g.phase = "playing"

\* The negation of `!player || player.status !== 'alive' || gameState.phase !== 'playing'`.
SDMeetingGuard(g, playerId) ==
    /\ HasPlayer(g, playerId)
    /\ g.players[playerId].status = "alive"
    /\ g.phase = "playing"

\* A handler that stores the caller before it rejects the call.
SDCallEmergencyMeetingEager(g, playerId) ==
    IF g = Null THEN Res(FALSE, FALSE, g, FALSE, 0)
    ELSE IF ~SDMeetingGuard(g, playerId)
    THEN Res(FALSE, TRUE, [g EXCEPT !.meetingCaller = playerId], FALSE, 0)
    ELSE Res(TRUE, TRUE,
             SDResetVotes([g EXCEPT !.phase = "discussion",
                                    !.discussionTimeLeft = DISCUSSION_TIME,
                                    !.meetingCaller = playerId]),
             FALSE, 0)

SDCallEmergencyMeeting(g, playerId) ==
    IF g = Null THEN Res(FALSE, FALSE, g, FALSE, 0)
    ELSE IF ~SDMeetingGuard(g, playerId) THEN Res(FALSE, FALSE, g, FALSE, 0)
    ELSE Res(TRUE, TRUE,
             SDResetVotes([g EXCEPT !.phase = "discussion",
                                    !.discussionTimeLeft = DISCUSSION_TIME,
                                    !.meetingCaller = playerId]),
             FALSE, 0)

\* The guard without `target.status !== 'alive'`.
SDEliminateGuardAnyTarget(g, impostorId, targetId) ==
    /\ HasPlayer(g, impostorId)
    /\ HasPlayer(g, targetId)
    /\ g.players[impostorId].role = "impostor"
    /\ g.players[impostorId].status = "alive"

SDEliminateGuard(g, impostorId, targetId) ==
    /\ HasPlayer(g, impostorId)
    /\ HasPlayer(g, targetId)
    /\ g.players[impostorId].role = "impostor"
    /\ g.players[impostorId].status = "alive"
    /\ g.players[targetId].status = "alive"

SDEliminatePlayer(g, impostorId, targetId) ==
    IF g = Null THEN Res(FALSE, FALSE, g, FALSE, 0)
    ELSE IF ~SDEliminateGuard(g, impostorId, targetId) THEN Res(FALSE, FALSE, g, FALSE, 0)
    ELSE LET g1 == [g EXCEPT !.players[targetId].status = "dead",
                             !.eliminatedPlayer = targetId]
             aliveImpostors == Len(AliveWithRole(g1, "impostor"))
             aliveCrewmates == Len(AliveWithRole(g1, "crewmate"))
             g2 == IF aliveImpostors >= aliveCrewmates
                   THEN [g1 EXCEPT !.phase = "ended", !.winner = "impostors"]
                   ELSE [g1 EXCEPT !.phase = "discussion",
                                   !.discussionTimeLeft = DISCUSSION_TIME,
                                   !.meetingCaller = impostorId]
         IN Res(TRUE, TRUE, g2, FALSE, 0)

\* The `votes` object and skipCount built by alivePlayers.forEach: `keys` is the
\* insertion order of the object's keys (Object.entries follows it), `n` the counts.
RECURSIVE CountVotes(_, _, _)
CountVotes(g, ids, acc) ==
    IF ids = <<>> THEN acc
    ELSE LET v == g.players[Head(ids)].votedFor
         IN CountVotes(g, Tail(ids),
                IF v # 0
                THEN [keys |-> IF v \in DOMAIN acc.n THEN acc.keys ELSE Append(acc.keys, v),
                      n |-> (v :> (IF v \in DOMAIN acc.n THEN acc.n[v] ELSE 0) + 1) @@ acc.n,
                      skipCount |-> acc.skipCount]
                ELSE [acc EXCEPT !.skipCount = @ + 1])

NoVotes == [keys |-> <<>>, n |-> <<>>, skipCount |-> 0]

\* Object.entries(votes).forEach(...) updating mostVoted, maxVotes and tie.
RECURSIVE FindMostVoted(_, _, _)
FindMostVoted(keys, n, acc) ==
    IF keys = <<>> THEN acc
    ELSE LET voteCount == n[Head(keys)]
         IN FindMostVoted(Tail(keys), n,
                IF voteCount > acc.maxVotes
                THEN [mostVoted |-> Head(keys), maxVotes |-> voteCount, tie |-> FALSE]
                ELSE IF voteCount = acc.maxVotes /\ acc.maxVotes > 0
                THEN [acc EXCEPT !.tie = TRUE]
                ELSE acc)

NoneVoted == [mostVoted |-> 0, maxVotes |-> 0, tie |-> FALSE]

\* `maxVotes >= skipCount` in place of `maxVotes > skipCount`.
TallyEliminatesOnSkipTie(mv, skipCount) ==
    mv.mostVoted # 0 /\ ~mv.tie /\ mv.maxVotes >= skipCount

\* if (mostVoted && !tie && maxVotes > skipCount)
TallyEliminates(mv, skipCount) ==
    mv.mostVoted # 0 /\ ~mv.tie /\ mv.maxVotes > skipCount

\* The "Count votes ... Eliminate player" block of castVote.
SDTally(g) ==
    LET votes == CountVotes(g, AlivePlayers(g), NoVotes)
        mv == FindMostVoted(votes.keys, votes.n, NoneVoted)
    IN IF TallyEliminates(mv, votes.skipCount) /\ HasPlayer(g, mv.mostVoted)
       THEN [g EXCEPT !.players[mv.mostVoted].status = "dead",
                      !.eliminatedPlayer = mv.mostVoted]
       ELSE g

\* The block without the impostors' win test.
SDAfterTallyCrewmatesOnly(g) ==
    IF Len(AliveWithRole(g, "impostor")) = 0
    THEN [g EXCEPT !.phase = "ended", !.winner = "crewmates"]
    ELSE [g EXCEPT !.phase = "playing"]

\* `>` in place of `>=` in the impostors' win test.
SDAfterTallyStrictMajority(g) ==
    LET remainingImpostors == Len(AliveWithRole(g, "impostor"))
        remainingCrewmates == Len(AliveWithRole(g, "crewmate"))
    IN IF remainingImpostors = 0
       THEN [g EXCEPT !.phase = "ended", !.winner = "crewmates"]
       ELSE IF remainingImpostors > remainingCrewmates
       THEN [g EXCEPT !.phase = "ended", !.winner = "impostors"]
       ELSE [g EXCEPT !.phase = "playing"]

\* The "Check win conditions" block of castVote.
SDAfterTally(g) ==
    LET remainingImpostors == Len(AliveWithRole(g, "impostor"))
        remainingCrewmates == Len(AliveWithRole(g, "crewmate"))
    IN IF remainingImpostors = 0
       THEN [g EXCEPT !.phase = "ended", !.winner = "crewmates"]
       ELSE IF remainingImpostors >= remainingCrewmates
       THEN [g EXCEPT !.phase = "ended", !.winner = "impostors"]
       ELSE [g EXCEPT !.phase = "playing"]

\* votedPlayers.length === alivePlayers.length
AllAliveVoted(g) ==
    Len(SelectSeq(AlivePlayers(g), LAMBDA id : g.players[id].hasVoted)) = Len(AlivePlayers(g))

\* The guard without `voter.status !== 'alive'`.
SDVoteGuardAnyStatus(g, voterId) ==
    /\ HasPlayer(g, voterId)
    /\ g.phase = "voting"

SDVoteGuard(g, voterId) ==
    /\ HasPlayer(g, voterId)
    /\ g.players[voterId].status = "alive"
    /\ g.phase = "voting"

SDRecordVote(g, voterId, targetId) ==
    [g EXCEPT !.players[voterId].hasVoted = TRUE,
              !.players[voterId].votedFor = targetId]

\* targetId 0 is the absent targetId: a skip vote.
SDCastVote(g, voterId, targetId) ==
    IF g = Null THEN Res(FALSE, FALSE, g, FALSE, 0)
    ELSE IF ~SDVoteGuard(g, voterId) THEN Res(FALSE, FALSE, g, FALSE, 0)
    ELSE LET g1 == SDRecordVote(g, voterId, targetId)
             g2 == IF AllAliveVoted(g1)
                   THEN SDResetVotes(SDAfterTally(SDTally(g1)))
                   ELSE g1
         IN Res(TRUE, TRUE, g2, FALSE, 0)

\* A tick that counts the discussion down and leaves a vote open.
SDUpdateGamePhaseDiscussionOnly(g) ==
    IF g = Null THEN Res(FALSE, FALSE, g, FALSE, 0)
    ELSE IF g.phase = "discussion" /\ g.discussionTimeLeft # -1
    THEN LET left == Max(0, g.discussionTimeLeft - 1)
         IN Res(TRUE, TRUE,
                IF left = 0
                THEN [g EXCEPT !.discussionTimeLeft = left,
                               !.phase = "voting",
                               !.votingTimeLeft = VOTING_TIME]
                ELSE [g EXCEPT !.discussionTimeLeft = left],
                FALSE, 0)
    ELSE Res(TRUE, TRUE, g, FALSE, 0)

SDUpdateGamePhase(g) ==
    IF g = Null THEN Res(FALSE, FALSE, g, FALSE, 0)
    ELSE IF g.phase = "discussion" /\ g.discussionTimeLeft # -1
    THEN LET left == Max(0, g.discussionTimeLeft - 1)
         IN Res(TRUE, TRUE,
                IF left = 0
                THEN [g EXCEPT !.discussionTimeLeft = left,
                               !.phase = "voting",
                               !.votingTimeLeft = VOTING_TIME]
                ELSE [g EXCEPT !.discussionTimeLeft = left],
                FALSE, 0)
    ELSE IF g.phase = "voting" /\ g.votingTimeLeft # -1
    THEN LET left == Max(0, g.votingTimeLeft - 1)
         IN Res(TRUE, TRUE,
                IF left = 0
                THEN SDResetVotes([g EXCEPT !.votingTimeLeft = left, !.phase = "playing"])
                ELSE [g EXCEPT !.votingTimeLeft = left],
                FALSE, 0)
    ELSE Res(TRUE, TRUE, g, FALSE, 0)

----
\* Hidden-object build (game.ts lines 1-291).

Loc(x, y, width, height, difficulty) ==
    [x |-> x, y |-> y, width |-> width, height |-> height, difficulty |-> difficulty]

IMPOSTOR_LOCATIONS ==
    << Loc(15, 25, 8, 12, "easy"),
       Loc(75, 40, 7, 11, "easy"),
       Loc(45, 70, 8, 13, "easy"),
       Loc(30, 15, 5, 8, "medium"),
       Loc(85, 60, 6, 9, "medium"),
       Loc(20, 80, 5, 7, "medium"),
       Loc(65, 20, 6, 8, "medium"),
       Loc(55, 35, 3, 5, "hard"),
       Loc(10, 55, 4, 6, "hard"),
       Loc(90, 25, 3, 4, "hard"),
       Loc(40, 85, 4, 5, "hard"),
       Loc(70, 75, 3, 5, "hard") >>

\* The impostor `impostor_${index}` is modelled by its place in the list.
HONewImpostor(index) ==
    [id |-> index,
     x |-> IMPOSTOR_LOCATIONS[index].x,
     y |-> IMPOSTOR_LOCATIONS[index].y,
     width |-> IMPOSTOR_LOCATIONS[index].width,
     height |-> IMPOSTOR_LOCATIONS[index].height,
     difficulty |-> IMPOSTOR_LOCATIONS[index].difficulty,
     found |-> FALSE, foundBy |-> 0, foundAt |-> -1]

HONewPlayer ==
    [score |-> 0, foundImpostors |-> <<>>, timeStarted |-> -1, timeCompleted |-> -1]

HOCreateGame(hostId) ==
    [phase |-> "waiting",
     order |-> <<hostId>>,
     players |-> (hostId :> HONewPlayer),
     impostors |-> [i \in DOMAIN IMPOSTOR_LOCATIONS |-> HONewImpostor(i)],
     host |-> hostId,
     timeLimit |-> TIME_LIMIT,
     leaderboard |-> <<>>,
     gameStartTime |-> -1,
     gameEndTime |-> -1,
     timeLeft |-> -1,
     winner |-> 0]

\* A join that also hands the session to the player who joined.
HOPutPlayerAsHost(g, id, rec) ==
    [g EXCEPT !.players = (id :> rec) @@ g.players,
              !.order = IF id \in DOMAIN g.players THEN g.order ELSE Append(g.order, id),
              !.host = id]

HOPutPlayer(g, id, rec) ==
    [g EXCEPT !.players = (id :> rec) @@ g.players,
              !.order = IF id \in DOMAIN g.players THEN g.order ELSE Append(g.order, id)]

\* `>` in place of `>=`.
HOJoinFullOffByOne(g) == PlayerCount(g) > MAX_PLAYERS_HO

HOJoinFull(g) == PlayerCount(g) >= MAX_PLAYERS_HO

HOJoinGame(g, playerId, t) ==
    IF g = Null THEN Res(FALSE, FALSE, g, FALSE, 0)
    ELSE IF HOJoinFull(g) THEN Res(FALSE, FALSE, g, FALSE, 0)
    ELSE IF HasPlayer(g, playerId) THEN Res(TRUE, FALSE, g, FALSE, 0)
    ELSE LET player == IF g.phase = "playing"
                       THEN [HONewPlayer EXCEPT !.timeStarted = t]
                       ELSE HONewPlayer
         IN Res(TRUE, TRUE, HOPutPlayer(g, playerId, player), FALSE, 0)

\* A start that leaves gameStartTime unset.
HOStartGameUnstamped(g, playerId, t) ==
    IF g = Null THEN Res(FALSE, FALSE, g, FALSE, 0)
    ELSE IF g.host # playerId THEN Res(FALSE, FALSE, g, FALSE, 0)
    ELSE IF g.phase # "waiting" THEN Res(FALSE, FALSE, g, FALSE, 0)
    ELSE IF PlayerCount(g) < MIN_PLAYERS_HO THEN Res(FALSE, FALSE, g, FALSE, 0)
    ELSE Res(TRUE, TRUE,
             [g EXCEPT !.phase = "playing",
                       !.timeLeft = TIME_LIMIT,
                       !.players = [id \in DOMAIN g.players |->
                                       [g.players[id] EXCEPT !.timeStarted = t]]],
             FALSE, 0)

HOStartGame(g, playerId, t) ==
    IF g = Null THEN Res(FALSE, FALSE, g, FALSE, 0)
    ELSE IF g.host # playerId THEN Res(FALSE, FALSE, g, FALSE, 0)
    ELSE IF g.phase # "waiting" THEN Res(FALSE, FALSE, g, FALSE, 0)
    ELSE IF PlayerCount(g) < MIN_PLAYERS_HO THEN Res(FALSE, FALSE, g, FALSE, 0)
    ELSE Res(TRUE, TRUE,
             [g EXCEPT !.phase = "playing",
                       !.gameStartTime = t,
                       !.timeLeft = TIME_LIMIT,
                       !.players = [id \in DOMAIN g.players |->
                                       [g.players[id] EXCEPT !.timeStarted = t]]],
             FALSE, 0)

\* The entry of a player in the leaderboard (timeCompleted -1: the key is left out).
LeaderboardEntry(g, id) ==
    [playerId |-> id, score |-> g.players[id].score,
     timeCompleted |-> IF g.players[id].timeCompleted > 0
                       THEN g.players[id].timeCompleted ELSE -1]

\* The comparator of updateLeaderboard: negative when a goes first.
LeaderboardCompare(a, b) ==
    IF b.score # a.score THEN b.score - a.score
    ELSE IF a.timeCompleted > 0 /\ b.timeCompleted > 0
    THEN a.timeCompleted - b.timeCompleted
    ELSE 0

\* Array.prototype.sort is stable: an entry goes after the entries it does not precede.
RECURSIVE InsertSorted(_, _)
InsertSorted(sorted, e) ==
    IF sorted = <<>> THEN <<e>>
    ELSE IF LeaderboardCompare(sorted[Len(sorted)], e) > 0
    THEN Append(InsertSorted(SubSeq(sorted, 1, Len(sorted) - 1), e), sorted[Len(sorted)])
    ELSE Append(sorted, e)

RECURSIVE SortEntries(_, _)
SortEntries(entries, sorted) ==
    IF entries = <<>> THEN sorted
    ELSE SortEntries(Tail(entries), InsertSorted(sorted, Head(entries)))

\* A recomputation that also stamps every player as having completed.
updateLeaderboardStamping(g) ==
    [g EXCEPT !.leaderboard =
                  SortEntries([i \in DOMAIN g.order |-> LeaderboardEntry(g, g.order[i])], <<>>),
              !.players = [id \in DOMAIN g.players |->
                              [g.players[id] EXCEPT !.timeCompleted = g.gameEndTime]]]

\* (h is the session handed in, evaluated once.)
updateLeaderboard(g) ==
    CHOOSE sorted \in
        {[h EXCEPT !.leaderboard =
             SortEntries([i \in DOMAIN h.order |-> LeaderboardEntry(h, h.order[i])], <<>>)]
         : h \in {g}} : TRUE

\* A box without its right and bottom edges: `x < impostor.x + impostor.width`.
HitHalfOpen(impostor, x, y) ==
    /\ ~impostor.found
    /\ x >= impostor.x /\ x < impostor.x + impostor.width
    /\ y >= impostor.y /\ y < impostor.y + impostor.height

\* A box without its left and top edges: `x > impostor.x`, `y > impostor.y`.
HitInside(impostor, x, y) ==
    /\ ~impostor.found
    /\ x > impostor.x /\ x <= impostor.x + impostor.width
    /\ y > impostor.y /\ y <= impostor.y + impostor.height

\* A box one unit wider on the right: `x <= impostor.x + impostor.width + 1`.
HitWider(impostor, x, y) ==
    /\ ~impostor.found
    /\ x >= impostor.x /\ x <= impostor.x + impostor.width + 1
    /\ y >= impostor.y /\ y <= impostor.y + impostor.height

\* withinX && withinY without `if (impostor.found) return false`.
HitAlsoFound(impostor, x, y) ==
    /\ x >= impostor.x /\ x <= impostor.x + impostor.width
    /\ y >= impostor.y /\ y <= impostor.y + impostor.height

\* withinX && withinY for a not yet found impostor
Hit(impostor, x, y) ==
    /\ ~impostor.found
    /\ x >= impostor.x /\ x <= impostor.x + impostor.width
    /\ y >= impostor.y /\ y <= impostor.y + impostor.height

\* gameState.impostors.find(...): the index of the first hit, 0 when there is none.
FoundImpostor(g, x, y) ==
    LET hits == {i \in DOMAIN g.impostors : Hit(g.impostors[i], x, y)}
    IN IF hits = {} THEN 0 ELSE CHOOSE i \in hits : \A j \in hits : i <= j

\* The flat award of the simpler build.
PointsFlat(difficulty) == 100

Points(difficulty) ==
    CASE difficulty = "easy" -> 10
      [] difficulty = "medium" -> 25
      [] difficulty = "hard" -> 50
      [] OTHER -> 0

\* player.timeStarted || Date.now()
OrNow(time, t) == IF time = -1 \/ time = 0 THEN t ELSE time

\* Math.max(0, Math.floor((TIME_LIMIT - timeElapsed) / 10)) with
\* timeElapsed = (Date.now() - started) / 1000, times in milliseconds
TimeBonus(started, t) == Max(0, (TIME_LIMIT * 1000 - (t - started)) \div 10000)

\* `gameState.phase === 'waiting'` in place of `gameState.phase !== 'playing'`.
HOCanFindOnceStarted(g) == g.phase # "waiting"

\* The test `playerFoundAll` alone.
HOFindEndsByFinderOnly(g, playerId) ==
    Len(g.players[playerId].foundImpostors) = Len(g.impostors)

\* allFound || playerFoundAll, on the session with the find registered.
HOFindEnds(g, playerId) ==
    LET allFound == \A j \in DOMAIN g.impostors : g.impostors[j].found
        playerFoundAll == Len(g.players[playerId].foundImpostors) = Len(g.impostors)
    IN allFound \/ playerFoundAll

\* The negation of `gameState.phase !== 'playing'`.
HOCanFind(g) == g.phase = "playing"

HOFindImpostor(g, playerId, x, y, t) ==
    IF g = Null THEN Res(FALSE, FALSE, g, FALSE, 0)
    ELSE IF ~HasPlayer(g, playerId) THEN Res(TRUE, FALSE, g, FALSE, 0)
    ELSE IF ~HOCanFind(g) THEN Res(TRUE, FALSE, g, FALSE, g.players[playerId].score)
    ELSE LET i == FoundImpostor(g, x, y)
         IN IF i = 0 THEN Res(TRUE, FALSE, g, FALSE, g.players[playerId].score)
            ELSE LET player == g.players[playerId]
                     points == Points(g.impostors[i].difficulty)
                     timeBonus == TimeBonus(OrNow(player.timeStarted, t), t)
                     g1 == [g EXCEPT !.impostors[i].found = TRUE,
                                     !.impostors[i].foundBy = playerId,
                                     !.impostors[i].foundAt = t,
                                     !.players[playerId].foundImpostors = Append(@, i),
                                     !.players[playerId].score = @ + points + timeBonus]
                     g2 == IF HOFindEnds(g1, playerId)
                           THEN updateLeaderboard(
                                    [g1 EXCEPT !.phase = "ended",
                                               !.gameEndTime = t,
                                               !.winner = playerId,
                                               !.players[playerId].timeCompleted = t])
                           ELSE g1
                 IN Res(TRUE, TRUE, g2, TRUE, g2.players[playerId].score)

\* A reduce that keeps its first element.
BestPlayerIsFirst(g, ids, best) == best

\* players.reduce((best, current) => current.score > best.score ? current : best)
RECURSIVE BestPlayer(_, _, _)
BestPlayer(g, ids, best) ==
    IF ids = <<>> THEN best
    ELSE BestPlayer(g, Tail(ids),
                    IF g.players[Head(ids)].score > g.players[best].score
                    THEN Head(ids) ELSE best)

\* `gameState.phase === 'waiting'` in place of `gameState.phase !== 'playing'`.
HOTimerRunsOnceStarted(g) == g.phase # "waiting"

\* The negation of `gameState.phase !== 'playing'` in updateGameTimer.
HOTimerRuns(g) == g.phase = "playing"

HOUpdateGameTimer(g, t) ==
    IF g = Null THEN Res(FALSE, FALSE, g, FALSE, 0)
    ELSE IF ~HOTimerRuns(g) THEN Res(TRUE, FALSE, g, FALSE, 0)
    ELSE LET elapsed == (t - OrNow(g.gameStartTime, t)) \div 1000
             timeLeft == Max(0, TIME_LIMIT - elapsed)
             g1 == [g EXCEPT !.timeLeft = timeLeft]
             winner == BestPlayer(g1, Tail(g1.order), Head(g1.order))
             g2 == IF timeLeft = 0
                   THEN updateLeaderboard(
                            [g1 EXCEPT !.phase = "ended",
                                       !.gameEndTime = t,
                                       !.winner = IF g1.players[winner].score > 0
                                                  THEN winner ELSE @])
                   ELSE g1
         IN Res(TRUE, TRUE, g2, FALSE, 0)

----
\* The handlers as steps of the system.  A request handled on its own is one step:
\* getGame, the handler's computation and updateGame (when the handler calls it).

\* What `last` keeps of a call: the operation and what it returned, for a call
\* that wrote the session also who called and with what argument, and for a find
\* always where the click was.
Record(op, by, arg, r) ==
    IF r.write THEN Call(op, by, arg, r.ok, r.flag, r.val)
    ELSE Call(op, 0, IF op = "find" THEN arg ELSE 0, r.ok, r.flag, r.val)

\* await updateGame(...) when the handler reaches it, and the value handed back.
Respond(op, by, arg, r) ==
    /\ game' = IF r.write THEN r.g ELSE game
    /\ last' = Record(op, by, arg, r)
    /\ UNCHANGED <<variant, now, reqs>>

\* POST /api/join on a post without a session: createGame with the caller as host.
CreateGame(hostId) ==
    /\ game = Null
    /\ game' = IF variant = "sd" THEN SDCreateGame(hostId) ELSE HOCreateGame(hostId)
    /\ last' = Call("create", hostId, 0, TRUE, FALSE, 0)
    /\ UNCHANGED <<variant, now, reqs>>

JoinGameOf(g, playerId, t) ==
    IF variant = "sd" THEN SDJoinGame(g, playerId) ELSE HOJoinGame(g, playerId, t)

JoinGame(playerId) ==
    Respond("join", playerId, 0, JoinGameOf(game, playerId, now))

\* The sets startGame may draw as impostorIds (one empty draw when it draws none).
StartDraws(g) ==
    IF variant = "sd" /\ g # Null THEN ImpostorChoices(g) ELSE {{}}

StartGameOf(g, playerId, impostorIds, t) ==
    IF variant = "sd" THEN SDStartGame(g, playerId, impostorIds, t)
    ELSE HOStartGame(g, playerId, t)

StartGame(playerId) ==
    \E impostorIds \in StartDraws(game) :
        Respond("start", playerId, 0, StartGameOf(game, playerId, impostorIds, now))

CompleteTask(playerId) ==
    /\ variant = "sd"
    /\ Respond("task", playerId, 0, SDCompleteTask(game, playerId))

CallEmergencyMeeting(playerId) ==
    /\ variant = "sd"
    /\ Respond("meeting", playerId, 0, SDCallEmergencyMeeting(game, playerId))

EliminatePlayer(impostorId, targetId) ==
    /\ variant = "sd"
    /\ Respond("eliminate", impostorId, targetId, SDEliminatePlayer(game, impostorId, targetId))

CastVote(voterId, targetId) ==
    /\ variant = "sd"
    /\ Respond("vote", voterId, targetId, SDCastVote(game, voterId, targetId))

UpdateGamePhase ==
    /\ variant = "sd"
    /\ Respond("phase", 0, 0, SDUpdateGamePhase(game))

\* The click positions the model tries; `arg` of a find is the place in this list.
\* The first six are two corners of the first target, a point just outside it, a
\* point inside the fourth target, a corner of the eighth, and a miss; the others
\* are the top left corners of the targets, in the order of the target list.
PlayClickPoints ==
    << <<15, 25>>, <<23, 37>>, <<24, 37>>, <<32, 20>>, <<56, 40>>, <<0, 0>> >>

ClickPoints ==
    PlayClickPoints \o [i \in DOMAIN IMPOSTOR_LOCATIONS |->
                           <<IMPOSTOR_LOCATIONS[i].x, IMPOSTOR_LOCATIONS[i].y>>]

PlayClicks == DOMAIN PlayClickPoints

\* The place in ClickPoints of the corner of target i.
CornerOf(i) == Len(PlayClickPoints) + i

FindImpostor(playerId, c) ==
    /\ variant = "ho"
    /\ Respond("find", playerId, c,
               HOFindImpostor(game, playerId, ClickPoints[c][1], ClickPoints[c][2], now))

UpdateGameTimer ==
    /\ variant = "ho"
    /\ Respond("timer", 0, 0, HOUpdateGameTimer(game, now))

\* Time passes between two requests.
AdvanceClock ==
    /\ now < Epoch + MaxClockSteps * ClockStep
    /\ now' = now + ClockStep
    /\ UNCHANGED <<variant, game, last, reqs>>

InitWith(variants) ==
    /\ variant \in variants
    /\ game = Null
    /\ now = Epoch
    /\ last = NoCall
    /\ reqs = <<>>

\* The ids of the session's players, and the next id to come (ids are opaque, so
\* a player who has not joined yet is any id not yet in the session).
Joined(g) == IF g = Null THEN {} ELSE DOMAIN g.players

NewId(g) == IF g = Null THEN 1 ELSE PlayerCount(g) + 1

----
\* SpecLife: create, join and start in both builds, up to a full session, one
\* request at a time; in the hidden-object build the clock runs, so that a session
\* is also joined while playing and after it ended.

LifeIds == {1, NewId(game) - 1, NewId(game)} \ {0}

NextLife ==
    \/ \E p \in LifeIds : CreateGame(p)
    \/ \E p \in LifeIds : JoinGame(p)
    \/ \E p \in {1, 2} : StartGame(p)
    \/ UpdateGameTimer
    \/ AdvanceClock

SpecLife == InitWith({"ho", "sd"}) /\ [][NextLife]_vars

----
\* SpecJoinRace: join requests that interleave.  A handler runs alone between its
\* awaits, so a join is two steps: getGame returns (JoinRead), and later the rest of
\* the handler runs on the value read and, when it gets there, updateGame writes it
\* (JoinWrite).  Nothing keeps another request from running between the two.
\* MaxReqs joins of a run are taken apart in this way; the others run alone.

Idle == [pc |-> "idle"]

Slots == 1..MaxReqs

Pending == {s \in DOMAIN reqs : reqs[s].pc = "read"}

\* An id that is neither in the stored session nor joining.
FreshId ==
    LET used == Joined(game) \cup {reqs[s].by : s \in Pending}
    IN CHOOSE i \in 1..(Cardinality(used) + 1) :
           i \notin used /\ \A j \in 1..(i - 1) : j \in used

JoinRead(s, playerId) ==
    /\ reqs[s].pc = "idle"
    /\ reqs' = [reqs EXCEPT ![s] = [pc |-> "read", by |-> playerId, snap |-> game]]
    /\ UNCHANGED <<variant, game, now, last>>

\* A join that reads the session again when it writes, as if join were atomic.
JoinWriteRereading(s) ==
    /\ reqs[s].pc = "read"
    /\ LET r == JoinGameOf(game, reqs[s].by, now)
       IN /\ game' = IF r.write THEN r.g ELSE game
          /\ last' = Record("join", reqs[s].by, 0, r)
    /\ reqs' = [reqs EXCEPT ![s] = [pc |-> "done"]]
    /\ UNCHANGED <<variant, now>>

JoinWrite(s) ==
    /\ reqs[s].pc = "read"
    /\ LET r == JoinGameOf(reqs[s].snap, reqs[s].by, now)
       IN /\ game' = IF r.write THEN r.g ELSE game
          /\ last' = Record("join", reqs[s].by, 0, r)
    /\ reqs' = [reqs EXCEPT ![s] = [pc |-> "done"]]
    /\ UNCHANGED <<variant, now>>

InitRace ==
    /\ variant \in {"ho", "sd"}
    /\ game = Null
    /\ now = Epoch
    /\ last = NoCall
    /\ reqs = [s \in Slots |-> Idle]

NextJoinRace ==
    \/ CreateGame(1)
    \/ \E p \in {1, FreshId} : JoinGame(p)
    \/ \E s \in Slots : \E p \in {1, FreshId} : JoinRead(s, p)
    \/ \E s \in Slots : JoinWrite(s)

SpecJoinRace == InitRace /\ [][NextJoinRace]_vars

----
\* SpecRouteRace: POST /api/join requests that interleave.  The route awaits
\* getGame (RouteLook); when there was no session it awaits createGame, which
\* stores a new session without reading (RouteCreate); when there was one it awaits
\* joinGame, which reads the session again (RouteJoinRead) and later writes
\* (RouteJoinWrite).  A finished request keeps its caller, whether it was answered
\* with success, and whether it created the session.

RouteUsers == {1, 2, 3}

RouteLook(s, userId) ==
    /\ reqs[s].pc = "idle"
    /\ reqs' = [reqs EXCEPT ![s] = [pc |-> "looked", by |-> userId, found |-> game # Null]]
    /\ UNCHANGED <<variant, game, now, last>>

RouteCreate(s) ==
    /\ reqs[s].pc = "looked"
    /\ ~reqs[s].found
    /\ game' = IF variant = "sd" THEN SDCreateGame(reqs[s].by) ELSE HOCreateGame(reqs[s].by)
    /\ last' = Call("create", reqs[s].by, 0, TRUE, FALSE, 0)
    /\ reqs' = [reqs EXCEPT ![s] =
                   [pc |-> "done", by |-> reqs[s].by, ok |-> TRUE, created |-> TRUE]]
    /\ UNCHANGED <<variant, now>>

RouteJoinRead(s) ==
    /\ reqs[s].pc = "looked"
    /\ reqs[s].found
    /\ reqs' = [reqs EXCEPT ![s] = [pc |-> "read", by |-> reqs[s].by, snap |-> game]]
    /\ UNCHANGED <<variant, game, now, last>>

RouteJoinWrite(s) ==
    /\ reqs[s].pc = "read"
    /\ LET r == JoinGameOf(reqs[s].snap, reqs[s].by, now)
       IN /\ game' = IF r.write THEN r.g ELSE game
          /\ last' = Record("join", reqs[s].by, 0, r)
          /\ reqs' = [reqs EXCEPT ![s] =
                         [pc |-> "done", by |-> reqs[s].by, ok |-> r.ok, created |-> FALSE]]
    /\ UNCHANGED <<variant, now>>

NextRouteRace ==
    \/ \E s \in Slots : \E p \in RouteUsers : RouteLook(s, p)
    \/ \E s \in Slots : RouteCreate(s)
    \/ \E s \in Slots : RouteJoinRead(s)
    \/ \E s \in Slots : RouteJoinWrite(s)

SpecRouteRace == InitRace /\ [][NextRouteRace]_vars

----
\* The social-deduction play specifications run sessions of at most MaxPlayersSD
\* players, one request at a time.

\* Who asks to join: the host again, and the next new player (while the session is
\* waiting, only up to MaxPlayersSD players).
PlayJoiners ==
    {1} \cup (IF game # Null /\ game.phase = "waiting" /\ PlayerCount(game) >= MaxPlayersSD
              THEN {} ELSE {NewId(game)})

\* The ids a request may carry: the session's players and an id that is no player.
Anyone == Joined(game) \cup {GhostId}

\* The callers and the targets the play specifications try: two players (whatever
\* their roles are) and an id that is no player; a vote may also be a skip (0).
Callers == {1, 2, GhostId}

VoteTargets == {0, 1, 2, GhostId}

\* SpecSDVote: meetings, the discussion countdown and votes.  The voting countdown
\* is not run here: every vote arrives before its first tick.
NextSDVote ==
    \/ CreateGame(1)
    \/ \E p \in PlayJoiners : JoinGame(p)
    \/ \E p \in {1, 2} : StartGame(p)
    \/ \E p \in Callers : CallEmergencyMeeting(p)
    \/ game.phase = "discussion" /\ UpdateGamePhase
    \/ \E v \in Anyone : \E t \in VoteTargets : CastVote(v, t)

SpecSDVote == InitWith({"sd"}) /\ [][NextSDVote]_vars

\* SpecSDPlay: tasks, eliminations and meetings.  The countdowns are not run here,
\* so no vote is ever open.
NextSDPlay ==
    \/ CreateGame(1)
    \/ \E p \in PlayJoiners : JoinGame(p)
    \/ \E p \in {1, 2} : StartGame(p)
    \/ \E p \in Anyone : CompleteTask(p)
    \/ \E p \in Callers : CallEmergencyMeeting(p)
    \/ \E p \in Anyone : \E t \in Callers : EliminatePlayer(p, t)
    \/ \E v \in {1} : \E t \in {0} : CastVote(v, t)
    \/ game.phase \notin {"discussion", "voting"} /\ UpdateGamePhase

SpecSDPlay == InitWith({"sd"}) /\ [][NextSDPlay]_vars

\* SpecSDRound: eliminations, meetings, the discussion countdown and votes, so that
\* a session goes through rounds of play, discussion and voting with players dying
\* in between.  An elimination (of the first or the second player) is asked for
\* while the phase is "playing" or "voting"; a vote is a skip or for the second
\* player; the voting countdown is not run here.
NextSDRound ==
    \/ CreateGame(1)
    \/ \E p \in PlayJoiners : JoinGame(p)
    \/ \E p \in {1, 2} : StartGame(p)
    \/ \E p \in {1, 2} : CallEmergencyMeeting(p)
    \/ game.phase \in {"playing", "voting"}
           /\ \E p \in Anyone : \E t \in {1, 2} : EliminatePlayer(p, t)
    \/ game.phase = "discussion" /\ UpdateGamePhase
    \/ \E v \in Anyone : \E t \in {0, 2} : CastVote(v, t)

SpecSDRound == InitWith({"sd"}) /\ [][NextSDRound]_vars

\* SpecSDLive: the countdowns under requests that arrive while a meeting is on: a
\* skip vote of the first player, eliminations of the second, tasks of the first.
\* The route /api/update-phase is posted again and again, as a one-second timer
\* does it: the tick, which is always enabled, is taken weakly fairly.
NextSDLive ==
    \/ CreateGame(1)
    \/ \E p \in PlayJoiners : JoinGame(p)
    \/ \E p \in {1, 2} : StartGame(p)
    \/ CallEmergencyMeeting(1)
    \/ \E p \in {1, 2} : EliminatePlayer(p, 2)
    \/ CastVote(1, 0)
    \/ game.phase \in {"discussion", "voting"} /\ CompleteTask(1)
    \/ UpdateGamePhase

SpecSDLive == InitWith({"sd"}) /\ [][NextSDLive]_vars /\ WF_vars(UpdateGamePhase)

\* SpecSDClock: both countdowns run to their ends while two of the players vote, so
\* that the ballot is never complete and a vote is closed only by the countdown.
NextSDClock ==
    \/ CreateGame(1)
    \/ \E p \in PlayJoiners : JoinGame(p)
    \/ \E p \in {1, 2} : StartGame(p)
    \/ \E p \in {1, 2} : CallEmergencyMeeting(p)
    \/ \E v \in {1, 2} : \E t \in {0, 2} : CastVote(v, t)
    \/ UpdateGamePhase

SpecSDClock == InitWith({"sd"}) /\ [][NextSDClock]_vars

----
\* SpecHO: a hidden-object session of at most MaxPlayersHO players, one request at
\* a time, with clicks at ClickPoints and a running clock.

HOJoiners ==
    {1} \cup (IF game # Null /\ PlayerCount(game) >= MaxPlayersHO THEN {} ELSE {NewId(game)})

NextHO ==
    \/ CreateGame(1)
    \/ \E p \in HOJoiners : JoinGame(p)
    \/ \E p \in {1, 2} : StartGame(p)
    \/ \E p \in Anyone : \E c \in PlayClicks : FindImpostor(p, c)
    \/ UpdateGameTimer
    \/ AdvanceClock

SpecHO == InitWith({"ho"}) /\ [][NextHO]_vars

----
\* SpecHOLive: a hidden-object session whose clock does not stop while the session
\* is being played: Date.now() goes on at least until TIME_LIMIT seconds have passed
\* since gameStartTime.  The client posts /api/update-timer every second while it
\* shows a session in phase "playing", so the tick is taken weakly fairly, and so
\* is the passing of time.

ClockRuns ==
    /\ \/ now < Epoch + MaxClockSteps * ClockStep
       \/ /\ game.phase = "playing"
          /\ now < Epoch + MaxClockSteps * ClockStep + TIME_LIMIT * 1000
          /\ now < OrNow(game.gameStartTime, now) + TIME_LIMIT * 1000
    /\ now' = now + ClockStep
    /\ UNCHANGED <<variant, game, last, reqs>>

\* Clicks on the first target, on the fourth and on none.
LiveClicks == {1, 4, 6}

NextHOLive ==
    \/ CreateGame(1)
    \/ \E p \in HOJoiners : JoinGame(p)
    \/ \E p \in {1, 2} : StartGame(p)
    \/ \E p \in {1, 2} : \E c \in LiveClicks : FindImpostor(p, c)
    \/ UpdateGameTimer
    \/ ClockRuns

SpecHOLive ==
    /\ InitWith({"ho"})
    /\ [][NextHOLive]_vars
    /\ WF_vars(UpdateGameTimer)
    /\ WF_vars(ClockRuns)

----
\* SpecFindRace: findImpostor requests that interleave, taken apart like the joins
\* of SpecJoinRace: getGame returns (FindRead), and later the rest of the handler
\* runs on the value read and writes it when it registered a find (FindWrite).

\* The places in ClickPoints that the interleaved requests click.
RaceClicks == {1, 4}

FindRead(s, playerId, c) ==
    /\ variant = "ho"
    /\ reqs[s].pc = "idle"
    /\ reqs' = [reqs EXCEPT ![s] = [pc |-> "read", by |-> playerId, arg |-> c, snap |-> game]]
    /\ UNCHANGED <<variant, game, now, last>>

FindWrite(s) ==
    /\ variant = "ho"
    /\ reqs[s].pc = "read"
    /\ LET c == reqs[s].arg
           r == HOFindImpostor(reqs[s].snap, reqs[s].by,
                               ClickPoints[c][1], ClickPoints[c][2], now)
       IN /\ game' = IF r.write THEN r.g ELSE game
          /\ last' = Record("find", reqs[s].by, c, r)
    /\ reqs' = [reqs EXCEPT ![s] = [pc |-> "done"]]
    /\ UNCHANGED <<variant, now>>

InitFindRace ==
    /\ variant = "ho"
    /\ game = Null
    /\ now = Epoch
    /\ last = NoCall
    /\ reqs = [s \in Slots |-> Idle]

NextFindRace ==
    \/ CreateGame(1)
    \/ \E p \in HOJoiners : JoinGame(p)
    \/ \E p \in {1, 2} : StartGame(p)
    \/ \E p \in {1, 2} : \E c \in RaceClicks : FindImpostor(p, c)
    \/ \E s \in Slots : \E p \in {1, 2} : \E c \in RaceClicks : FindRead(s, p, c)
    \/ \E s \in Slots : FindWrite(s)

SpecFindRace == InitFindRace /\ [][NextFindRace]_vars

----
\* SpecFindAll: a hidden-object session in which every target gets found.  Two
\* players click the corner of the first target that is not found yet (the order in
\* which targets are found is the order of the list), and the clock moves once, so
\* that a find is worth its full time bonus or half of it.

NextUnfound(g) ==
    IF g = Null THEN {}
    ELSE LET open == {i \in DOMAIN g.impostors : ~g.impostors[i].found}
         IN {i \in open : \A j \in open : i <= j}

FindAllClicks == {CornerOf(i) : i \in NextUnfound(game)}

NextFindAll ==
    \/ CreateGame(1)
    \/ \E p \in HOJoiners : JoinGame(p)
    \/ \E p \in {1, 2} : StartGame(p)
    \/ \E p \in {1, 2} : \E c \in FindAllClicks : FindImpostor(p, c)
    \/ now = Epoch /\ AdvanceClock

SpecFindAll == InitWith({"ho"}) /\ [][NextFindAll]_vars

----
\* SpecTick: the tick of either build in every phase.  A social-deduction session
\* ends by its tasks, a hidden-object session by its clock; no meeting is called, so
\* the social-deduction tick only meets the phases in which it has nothing to count.

TickJoiners == IF variant = "sd" THEN PlayJoiners ELSE HOJoiners

NextTick ==
    \/ CreateGame(1)
    \/ \E p \in TickJoiners : JoinGame(p)
    \/ \E p \in {1, 2} : StartGame(p)
    \/ \E p \in Anyone : CompleteTask(p)
    \/ UpdateGamePhase
    \/ \E p \in Anyone : \E c \in PlayClicks : FindImpostor(p, c)
    \/ UpdateGameTimer
    \/ AdvanceClock

SpecTick == InitWith({"ho", "sd"}) /\ [][NextTick]_vars

----
\* SpecCore: every core operation of either build, one request at a time.  In the
\* social-deduction build the first two players act; tasks (of the first player)
\* and eliminations (of the second) are asked for between the meetings.

NextCore ==
    \/ CreateGame(1)
    \/ \E p \in TickJoiners : JoinGame(p)
    \/ \E p \in {1, 2} : StartGame(p)
    \/ game.phase = "playing" /\ CompleteTask(1)
    \/ \E p \in {1, 2} : CallEmergencyMeeting(p)
    \/ game.phase = "playing" /\ \E p \in {1, 2} : EliminatePlayer(p, 2)
    \/ \E v \in {1, 2} : \E t \in {0, 2} : CastVote(v, t)
    \/ UpdateGamePhase
    \/ \E p \in Anyone : \E c \in PlayClicks : FindImpostor(p, c)
    \/ UpdateGameTimer
    \/ variant = "ho" /\ AdvanceClock

SpecCore == InitWith({"ho", "sd"}) /\ [][NextCore]_vars

----
\* Properties of the social-deduction and hidden-object sessions.

\* This step is a call of handler `op` that has returned (not the clock moving on,
\* and not a request that has only read the session).
Did(op) == last'.op = op /\ now' = now /\ Pending' \subseteq Pending

\* C1: in the social-deduction build, once the phase is "ended" and the winner is
\* set, no completeTask, callEmergencyMeeting, eliminatePlayer, castVote or
\* updateGamePhase call changes the phase or the winner.
C1_EndedIsFinalSD ==
    [][(/\ variant = "sd"
        /\ game.phase = "ended"
        /\ game.winner # ""
        /\ \E op \in {"task", "meeting", "eliminate", "vote", "phase"} : Did(op))
       => (game'.phase = game.phase /\ game'.winner = game.winner)]_vars

\* The moves of the hidden-object phase ("none": no session stored yet).
HOPhaseMoves ==
    {<<"none", "waiting">>, <<"waiting", "playing">>, <<"playing", "ended">>}

\* C2: in the hidden-object build the phase only moves waiting -> playing -> ended
\* (so "ended" is entered at most once and never left), and once the phase is
\* "ended" every startGame, findImpostor and updateGameTimer call leaves the whole
\* stored session unchanged.
C2_PhaseOrderHO ==
    [][variant = "ho" =>
        /\ game'.phase # game.phase => <<game.phase, game'.phase>> \in HOPhaseMoves
        /\ (game.phase = "ended" /\ \E op \in {"start", "find", "timer"} : Did(op))
           => game' = game]_vars

\* A click that hits nothing new is handled after the session ended.
C2_Witness ==
    /\ variant = "ho"
    /\ game.phase = "ended"
    /\ last.op = "find"
    /\ ~last.flag

\* The phases in which a first join is accepted (C5 and C6).
FirstJoinPhases == IF variant = "sd" THEN {"waiting"} ELSE {"waiting", "playing"}

\* C3: a joinGame call by an id that is already a player succeeds, returns the
\* identical session and writes nothing, in both builds, at every player count and
\* in every phase in which a first join is accepted.
C3_RejoinIdempotent ==
    \A p \in Joined(game) :
        game.phase \in FirstJoinPhases =>
            LET r == JoinGameOf(game, p, now)
            IN r.ok /\ ~r.write /\ r.g = game

MaxPlayers == IF variant = "sd" THEN MAX_PLAYERS_SD ELSE MAX_PLAYERS_HO

\* The session the join that returns in this step had read: its snapshot when the
\* join was taken apart, the stored session when it ran alone.
JoinHadRead ==
    LET fin == {s \in DOMAIN reqs : reqs[s].pc = "read" /\ reqs'[s].pc = "done"}
    IN IF fin = {} THEN game ELSE reqs[CHOOSE s \in fin : TRUE].snap

\* C4: a joinGame call that finds MAX_PLAYERS players (20 hidden-object, 10
\* social-deduction) is rejected and writes nothing, and the stored session never
\* holds more than MAX_PLAYERS players, also when joins interleave their reads and
\* writes.
C4_NeverOverFull ==
    /\ [](game # Null => PlayerCount(game) <= MaxPlayers)
    /\ [][(Did("join") /\ JoinHadRead # Null /\ PlayerCount(JoinHadRead) >= MaxPlayers)
          => (~last'.ok /\ game' = game)]_vars

\* A join is rejected on a full hidden-object session after a join that was taken
\* apart has written.
C4_Witness ==
    /\ variant = "ho"
    /\ game # Null
    /\ PlayerCount(game) = MAX_PLAYERS_HO
    /\ last.op = "join"
    /\ ~last.ok
    /\ \E s \in DOMAIN reqs : reqs[s].pc = "done"

\* C5: in the social-deduction build joinGame is accepted only while the phase is
\* "waiting"; in any other phase it is rejected and the stored session stays as it
\* was, and from the moment startGame succeeds the set of player ids is fixed.
C5_JoinOnlyWaitingSD ==
    [][variant = "sd" =>
        /\ (Did("join") /\ game.phase # "waiting") => (~last'.ok /\ game' = game)
        /\ game.phase \notin {"none", "waiting"} =>
              (Joined(game') = Joined(game) /\ game'.order = game.order)]_vars

\* A join is rejected while a vote is open.
C5_Witness ==
    /\ variant = "sd"
    /\ game.phase = "voting"
    /\ last.op = "join"
    /\ ~last.ok

\* C6: in the hidden-object build a joinGame call by a new player id is accepted
\* (and the player added) in the phases "waiting" and "playing", and is rejected
\* with nothing written when the phase is "ended".
C6_NoJoinAfterEndHO ==
    (variant = "ho" /\ game # Null /\ PlayerCount(game) < MAX_PLAYERS_HO) =>
        LET r == HOJoinGame(game, NewId(game), now)
        IN IF game.phase \in {"waiting", "playing"}
           THEN r.ok /\ r.write /\ HasPlayer(r.g, NewId(game))
           ELSE ~r.ok /\ ~r.write

MinPlayers == IF variant = "sd" THEN MIN_PLAYERS_SD ELSE MIN_PLAYERS_HO

\* The conditions under which startGame is to succeed for caller p.
MayStart(p) ==
    /\ game # Null
    /\ p = game.host
    /\ game.phase = "waiting"
    /\ PlayerCount(game) >= MinPlayers

\* C7: startGame succeeds if and only if the session exists, the caller is the
\* host, the phase is "waiting" and at least MIN_PLAYERS (1 hidden-object, 4
\* social-deduction) players are in; a success sets the phase to "playing" and
\* records gameStartTime (hidden-object: also timeLeft = 300 and every player's
\* timeStarted); every other call is rejected and writes nothing.
C7_StartGame ==
    /\ [](\A p \in Joined(game) \cup {GhostId} : \A draw \in StartDraws(game) :
             StartGameOf(game, p, draw, now).ok <=> MayStart(p))
    /\ [][Did("start") =>
            IF last'.ok
            THEN /\ MayStart(last'.by)
                 /\ game'.phase = "playing"
                 /\ game'.gameStartTime = now
                 /\ variant = "ho" =>
                       /\ game'.timeLeft = 300
                       /\ \A id \in Joined(game') : game'.players[id].timeStarted = now
            ELSE game' = game]_vars

\* The host has started a social-deduction session of exactly MIN_PLAYERS players.
C7_Witness ==
    /\ variant = "sd"
    /\ last.op = "start"
    /\ last.ok
    /\ game.phase = "playing"
    /\ PlayerCount(game) = 4

\* C8: in the social-deduction build, right after a successful startGame with N
\* players (4 <= N <= 10), the number k of impostors is max(1, floor(N/4)), that
\* is 4k <= N < 4(k+1); every other player is a crewmate, and every player has
\* hasVoted = false and no votedFor, whatever the draw was.
C8_RolesAtStart ==
    [][(variant = "sd" /\ Did("start") /\ last'.ok) =>
        LET N == PlayerCount(game')
            k == Cardinality({id \in Joined(game') : game'.players[id].role = "impostor"})
        IN /\ N \in 4..10
           /\ k >= 1 /\ 4 * k <= N /\ N < 4 * (k + 1)
           /\ \A id \in Joined(game') :
                 /\ game'.players[id].role \in {"impostor", "crewmate"}
                 /\ ~game'.players[id].hasVoted
                 /\ game'.players[id].votedFor = 0]_vars

\* A session of eight players has started: two impostors are drawn.
C8_Witness ==
    /\ variant = "sd"
    /\ last.op = "start"
    /\ last.ok
    /\ PlayerCount(game) = 8
    /\ game.phase = "playing"

\* The alive players of the stored session, and the vote of each when the vote cast
\* in this step is counted with the votes stored before.
Voters == {id \in Joined(game) : game.players[id].status = "alive"}

Ballot(id) == IF id = last'.by THEN last'.arg ELSE game.players[id].votedFor

\* The multiset of the alive players' votes: how many name candidate c (0: a skip).
VotesFor(c) == Cardinality({id \in Voters : Ballot(id) = c})

Candidates == {Ballot(id) : id \in Voters} \ {0}

\* The candidate that alone has the highest count, when that count exceeds the skips.
Elected ==
    {c \in Candidates :
        /\ \A d \in Candidates \ {c} : VotesFor(d) < VotesFor(c)
        /\ VotesFor(c) > VotesFor(0)}

StatusOf(g) == [id \in Joined(g) |-> g.players[id].status]

\* This step is an accepted vote that completes the votes of the alive players.
TallyRuns ==
    /\ variant = "sd"
    /\ Did("vote")
    /\ last'.ok
    /\ \A id \in Voters \ {last'.by} : game.players[id].hasVoted

\* C9 as claimed: when a tally runs, the candidate with the highest count is set to
\* "dead" if and only if no other candidate has that count and the count exceeds
\* the skips; otherwise no status changes.
C9_TallyRuleAsClaimed ==
    [][TallyRuns =>
        IF Elected # {}
        THEN \A c \in Elected :
                /\ HasPlayer(game, c)
                /\ StatusOf(game') = [id \in Joined(game) |->
                                         IF id = c THEN "dead" ELSE game.players[id].status]
        ELSE StatusOf(game') = StatusOf(game)]_vars

\* C9: when a tally runs, its outcome is a function of the multiset of the alive
\* players' votes: the candidate with the highest count, when it is a player of
\* the session, is set to "dead" if and only if no other candidate has that count
\* and the count exceeds the skips; with a tie at the maximum, with skips >= the
\* maximum, or with a top candidate that is no player, no status changes.
C9_TallyRule ==
    [][TallyRuns =>
        IF Elected # {} /\ Elected \subseteq Joined(game)
        THEN \A c \in Elected :
                StatusOf(game') = [id \in Joined(game) |->
                                      IF id = c THEN "dead" ELSE game.players[id].status]
        ELSE StatusOf(game') = StatusOf(game)]_vars

\* A tally has set a player to "dead" and play goes on.
C9_Witness ==
    /\ variant = "sd"
    /\ last.op = "vote"
    /\ last.ok
    /\ game.phase = "playing"
    /\ game.eliminatedPlayer # 0
    /\ game.players[game.eliminatedPlayer].status = "dead"

\* C10: castVote is accepted only when the voter is a player, alive, and the phase
\* is "voting"; a rejected vote writes nothing; an accepted vote that leaves an
\* alive player who has not voted sets the voter's hasVoted and votedFor and
\* changes nothing else (no status, no other vote, not the phase).
C10_CastVote ==
    [][(variant = "sd" /\ Did("vote")) =>
        IF last'.ok
        THEN LET v == last'.by
             IN /\ HasPlayer(game, v)
                /\ game.players[v].status = "alive"
                /\ game.phase = "voting"
                /\ (\E id \in Voters \ {v} : ~game.players[id].hasVoted) =>
                      game' = [game EXCEPT !.players[v].hasVoted = TRUE,
                                           !.players[v].votedFor = last'.arg]
        ELSE game' = game]_vars

\* A vote for a player is recorded while others have still to vote.
C10_Witness ==
    /\ variant = "sd"
    /\ last.op = "vote"
    /\ last.ok
    /\ game.phase = "voting"
    /\ last.arg # 0
    /\ game.players[last.by].hasVoted
    /\ game.players[last.by].votedFor = last.arg

\* The alive players of a session that have the given role.
AliveOf(g, role) ==
    {id \in Joined(g) : g.players[id].status = "alive" /\ g.players[id].role = role}

VotesCleared(g) ==
    \A id \in Joined(g) : ~g.players[id].hasVoted /\ g.players[id].votedFor = 0

\* C11: after every tally castVote decides on the alive counts it leaves: phase
\* "ended" and winner "crewmates" when no impostor is alive, else phase "ended" and
\* winner "impostors" when the alive impostors are at least the alive crewmates,
\* else phase "playing"; in all three cases every vote is cleared.
C11_AfterTally ==
    [][TallyRuns =>
        LET impostors == Cardinality(AliveOf(game', "impostor"))
            crewmates == Cardinality(AliveOf(game', "crewmate"))
        IN /\ IF impostors = 0
              THEN game'.phase = "ended" /\ game'.winner = "crewmates"
              ELSE IF impostors >= crewmates
              THEN game'.phase = "ended" /\ game'.winner = "impostors"
              ELSE game'.phase = "playing"
           /\ VotesCleared(game')]_vars

\* A tally has left as many impostors as crewmates: the impostors win.
C11_Witness ==
    /\ variant = "sd"
    /\ last.op = "vote"
    /\ last.ok
    /\ game.phase = "ended"
    /\ game.winner = "impostors"
    /\ Cardinality(AliveOf(game, "impostor")) = Cardinality(AliveOf(game, "crewmate"))
    /\ VotesCleared(game)

\* The conditions under which eliminatePlayer is to succeed.
MayEliminate(actor, target) ==
    /\ actor \in Joined(game)
    /\ target \in Joined(game)
    /\ game.players[actor].status = "alive"
    /\ game.players[actor].role = "impostor"
    /\ game.players[target].status = "alive"

\* C12: eliminatePlayer succeeds if and only if the actor is a player, alive and an
\* impostor, and the target is a player and alive; a success sets the target to
\* "dead" (and no other status) and eliminatedPlayer to the target, and then the
\* phase is "ended" with winner "impostors" when the alive impostors are at least
\* the alive crewmates, else "discussion" with discussionTimeLeft 45 and the actor
\* as meetingCaller; a rejected call writes nothing.
C12_EliminatePlayer ==
    /\ [](variant = "sd" =>
             \A actor \in Anyone : \A target \in Anyone :
                 SDEliminatePlayer(game, actor, target).ok <=> MayEliminate(actor, target))
    /\ [][(variant = "sd" /\ Did("eliminate")) =>
            IF last'.ok
            THEN LET actor == last'.by
                     target == last'.arg
                     impostors == Cardinality(AliveOf(game', "impostor"))
                     crewmates == Cardinality(AliveOf(game', "crewmate"))
                 IN /\ MayEliminate(actor, target)
                    /\ StatusOf(game') = [id \in Joined(game) |->
                                             IF id = target THEN "dead"
                                             ELSE game.players[id].status]
                    /\ game'.eliminatedPlayer = target
                    /\ IF impostors >= crewmates
                       THEN game'.phase = "ended" /\ game'.winner = "impostors"
                       ELSE /\ game'.phase = "discussion"
                            /\ game'.discussionTimeLeft = 45
                            /\ game'.meetingCaller = actor
            ELSE game' = game]_vars

\* An impostor has eliminated a crewmate and the body is discussed.
C12_Witness ==
    /\ variant = "sd"
    /\ last.op = "eliminate"
    /\ last.ok
    /\ game.phase = "discussion"
    /\ game.discussionTimeLeft = 45
    /\ game.meetingCaller = last.by
    /\ game.eliminatedPlayer = last.arg
    /\ game.players[last.arg].status = "dead"

\* The sum of a field over a set of players.
RECURSIVE SumOver(_, _, _)
SumOver(g, ids, field) ==
    IF ids = {} THEN 0
    ELSE LET id == CHOOSE i \in ids : TRUE
         IN g.players[id][field] + SumOver(g, ids \ {id}, field)

\* The conditions under which completeTask counts a task.
MayCompleteTask(p) ==
    /\ p \in Joined(game)
    /\ game.players[p].status = "alive"
    /\ game.players[p].role = "crewmate"

\* C13: completeTask returns taskCompleted = false and writes nothing unless the
\* player exists, is alive and is a crewmate; otherwise it adds one to that
\* player's tasksCompleted unless it has reached totalTasks, changes no other
\* player's count, and sets phase "ended", winner "crewmates" exactly when, after
\* that, the alive crewmates' tasksCompleted sum to at least their totalTasks.
\* In every reachable state 0 <= tasksCompleted <= totalTasks for every player.
C13_CompleteTask ==
    /\ [](variant = "sd" =>
             /\ \A id \in Joined(game) :
                   /\ 0 <= game.players[id].tasksCompleted
                   /\ game.players[id].tasksCompleted <= game.players[id].totalTasks
             /\ \A p \in Anyone :
                   LET r == SDCompleteTask(game, p)
                   IN (r.flag <=> (game # Null /\ MayCompleteTask(p))) /\ (~r.flag => ~r.write))
    /\ [][(variant = "sd" /\ Did("task")) =>
            IF last'.flag
            THEN LET p == last'.by
                     was == game.players[p].tasksCompleted
                     crew == AliveOf(game', "crewmate")
                 IN /\ MayCompleteTask(p)
                    /\ game'.players[p].tasksCompleted =
                          IF was < game.players[p].totalTasks THEN was + 1 ELSE was
                    /\ \A id \in Joined(game) \ {p} :
                          game'.players[id].tasksCompleted = game.players[id].tasksCompleted
                    /\ IF SumOver(game', crew, "tasksCompleted") >= SumOver(game', crew, "totalTasks")
                       THEN game'.phase = "ended" /\ game'.winner = "crewmates"
                       ELSE game'.phase = game.phase /\ game'.winner = game.winner
            ELSE game' = game]_vars

\* The last task of the alive crewmates is done while a crewmate is dead with
\* tasks left: the crewmates win.
C13_Witness ==
    /\ variant = "sd"
    /\ last.op = "task"
    /\ last.flag
    /\ game.phase = "ended"
    /\ game.winner = "crewmates"
    /\ game.players[last.by].tasksCompleted = game.players[last.by].totalTasks
    /\ \E id \in Joined(game) :
          /\ game.players[id].role = "crewmate"
          /\ game.players[id].status = "dead"
          /\ game.players[id].tasksCompleted < game.players[id].totalTasks

\* The conditions under which callEmergencyMeeting is to succeed.
MayCallMeeting(p) ==
    /\ p \in Joined(game)
    /\ game.players[p].status = "alive"
    /\ game.phase = "playing"

\* C14: callEmergencyMeeting succeeds if and only if the caller is a player, alive,
\* and the phase is "playing"; a success sets phase "discussion",
\* discussionTimeLeft 45 and meetingCaller to the caller, and leaves every vote
\* cleared; a rejected call writes nothing.
C14_CallEmergencyMeeting ==
    /\ [](variant = "sd" =>
             \A p \in Anyone : SDCallEmergencyMeeting(game, p).ok <=> MayCallMeeting(p))
    /\ [][(variant = "sd" /\ Did("meeting")) =>
            IF last'.ok
            THEN /\ MayCallMeeting(last'.by)
                 /\ game'.phase = "discussion"
                 /\ game'.discussionTimeLeft = 45
                 /\ game'.meetingCaller = last'.by
                 /\ VotesCleared(game')
            ELSE game' = game]_vars

\* A meeting is called while a player is dead.
C14_Witness ==
    /\ variant = "sd"
    /\ last.op = "meeting"
    /\ last.ok
    /\ game.phase = "discussion"
    /\ game.discussionTimeLeft = 45
    /\ game.meetingCaller = last.by
    /\ \E id \in Joined(game) : game.players[id].status = "dead"

\* C15: in "discussion" each updateGamePhase call lowers discussionTimeLeft by one
\* and changes nothing else, except that the call that brings it to 0 also sets
\* phase "voting" and votingTimeLeft 30; in "voting" each call lowers
\* votingTimeLeft by one and changes nothing else, except that the call that
\* brings it to 0 sets phase "playing" and clears every vote, changing no status
\* and no winner, whatever votes were cast.
C15_PhaseClockSD ==
    [][(variant = "sd" /\ Did("phase") /\ game # Null) =>
        IF game.phase = "discussion"
        THEN IF game.discussionTimeLeft - 1 = 0
             THEN game' = [game EXCEPT !.discussionTimeLeft = 0,
                                       !.phase = "voting",
                                       !.votingTimeLeft = 30]
             ELSE /\ game.discussionTimeLeft > 1
                  /\ game' = [game EXCEPT !.discussionTimeLeft = @ - 1]
        ELSE IF game.phase = "voting"
        THEN IF game.votingTimeLeft - 1 = 0
             THEN /\ game'.phase = "playing"
                  /\ game'.votingTimeLeft = 0
                  /\ VotesCleared(game')
                  /\ StatusOf(game') = StatusOf(game)
                  /\ game'.winner = game.winner
             ELSE /\ game.votingTimeLeft > 1
                  /\ game' = [game EXCEPT !.votingTimeLeft = @ - 1]
        ELSE TRUE]_vars

\* The voting countdown has run out and play goes on with nobody eliminated.
C15_Witness ==
    /\ variant = "sd"
    /\ last.op = "phase"
    /\ game.phase = "playing"
    /\ game.discussionTimeLeft = 0
    /\ game.votingTimeLeft = 0
    /\ game.meetingCaller # 0
    /\ \A id \in Joined(game) : game.players[id].status = "alive"

\* The highest score of a session's players.
TopScore(g) ==
    CHOOSE s \in {g.players[id].score : id \in Joined(g)} :
        \A id \in Joined(g) : g.players[id].score <= s

\* board lists every player of g once, with the player's score, highest score first.
IsLeaderboardOf(board, g) ==
    /\ Len(board) = Cardinality(Joined(g))
    /\ {board[i].playerId : i \in DOMAIN board} = Joined(g)
    /\ \A i \in DOMAIN board : board[i].score = g.players[board[i].playerId].score
    /\ \A i \in DOMAIN board : \A j \in DOMAIN board :
          i < j => board[i].score >= board[j].score

\* C16: an updateGameTimer call in phase "playing" made 300 s or more after
\* gameStartTime sets phase "ended" and timeLeft 0, recomputes the leaderboard, and
\* sets the winner to a player with the highest score when that score is > 0 (no
\* winner when every score is 0), changing no player and no target; an earlier
\* call changes only timeLeft, to 300 less the whole seconds elapsed.
C16_TimerHO ==
    [][(variant = "ho" /\ Did("timer") /\ game.phase = "playing") =>
        LET seconds == (now - game.gameStartTime) \div 1000
        IN IF seconds >= 300
           THEN /\ game'.phase = "ended"
                /\ game'.timeLeft = 0
                /\ IsLeaderboardOf(game'.leaderboard, game)
                /\ IF TopScore(game) > 0
                   THEN /\ game'.winner \in Joined(game)
                        /\ game.players[game'.winner].score = TopScore(game)
                   ELSE game'.winner = 0
                /\ game'.players = game.players
                /\ game'.impostors = game.impostors
           ELSE game' = [game EXCEPT !.timeLeft = 300 - seconds]]_vars

\* The time has run out and the second player, who scored more than the host, wins.
C16_Witness ==
    /\ variant = "ho"
    /\ last.op = "timer"
    /\ game.phase = "ended"
    /\ game.timeLeft = 0
    /\ game.winner = 2
    /\ game.players[2].score > game.players[1].score
    /\ game.players[1].score > 0
    /\ game.leaderboard[1].playerId = 2

\* C17: ticks that have nothing to count change nothing: in the hidden-object build
\* every updateGameTimer call on an ended session, and in the social-deduction
\* build every updateGamePhase call in phase "waiting", "playing" or "ended",
\* leaves every field of the stored session as it was.
C17_IdleTicks ==
    [][/\ (variant = "ho" /\ Did("timer") /\ game.phase = "ended") => game' = game
       /\ (variant = "sd" /\ Did("phase") /\ game.phase \in {"waiting", "playing", "ended"})
          => game' = game]_vars

\* The timer is called on an ended session that a player has joined since: the
\* leaderboard computed at the end is still the stored one.
C17_Witness ==
    /\ variant = "ho"
    /\ last.op = "timer"
    /\ game.phase = "ended"
    /\ Len(game.leaderboard) < PlayerCount(game)

\* The players whose foundImpostors list holds target i, and how often a list holds it.
FindersOf(g, i) == {id \in Joined(g) : i \in Range(g.players[id].foundImpostors)}

TimesFound(g, id, i) ==
    Cardinality({k \in DOMAIN g.players[id].foundImpostors : g.players[id].foundImpostors[k] = i})

\* The click at place c of ClickPoints is inside the box of target i.
InBox(g, i, c) ==
    /\ ClickPoints[c][1] >= g.impostors[i].x
    /\ ClickPoints[c][1] <= g.impostors[i].x + g.impostors[i].width
    /\ ClickPoints[c][2] >= g.impostors[i].y
    /\ ClickPoints[c][2] <= g.impostors[i].y + g.impostors[i].height

ScoreOf(g) == [id \in Joined(g) |-> g.players[id].score]

FoundStateOf(g) ==
    [i \in DOMAIN g.impostors |->
        <<g.impostors[i].found, g.impostors[i].foundBy, g.impostors[i].foundAt>>]

\* C18: with one request at a time, in every reachable state each target is in at
\* most one player's foundImpostors list and at most once in it, a target is found
\* if and only if it is in some list, and its foundBy is the player who has it;
\* and a click inside the box of a target that is already found changes no score,
\* no list and no found-state.
C18_FoundOnce ==
    /\ []((variant = "ho" /\ game # Null) =>
             \A i \in DOMAIN game.impostors :
                 /\ Cardinality(FindersOf(game, i)) <= 1
                 /\ \A id \in Joined(game) : TimesFound(game, id, i) <= 1
                 /\ game.impostors[i].found <=> FindersOf(game, i) # {}
                 /\ game.impostors[i].found => FindersOf(game, i) = {game.impostors[i].foundBy})
    /\ [][(/\ variant = "ho"
           /\ Did("find")
           /\ game # Null
           /\ \E i \in DOMAIN game.impostors : game.impostors[i].found /\ InBox(game, i, last'.arg))
          => (/\ ~last'.flag
              /\ ScoreOf(game') = ScoreOf(game)
              /\ FoundStateOf(game') = FoundStateOf(game)
              /\ game'.players = game.players)]_vars

\* The first target, found by the second player, is clicked again while the game
\* is on: nothing is registered.
C18_Witness ==
    /\ variant = "ho"
    /\ game.phase = "playing"
    /\ last.op = "find"
    /\ last.arg = 1
    /\ ~last.flag
    /\ game.impostors[1].found
    /\ game.impostors[1].foundBy = 2
    /\ game.players[2].foundImpostors = <<1>>

\* The ids of a session's targets, in the order of the list.
TargetIds(g) == [i \in DOMAIN g.impostors |-> g.impostors[i].id]

\* C19: once a target's `found` is true it is true in every later stored state, and
\* from createGame onwards the target list holds the same 12 ids in the same
\* order, with the same boxes.
C19_TargetsStable ==
    [][(variant = "ho" /\ game # Null) =>
        /\ \A i \in DOMAIN game.impostors : game.impostors[i].found => game'.impostors[i].found
        /\ Len(game'.impostors) = 12
        /\ TargetIds(game') = TargetIds(game)
        /\ \A i \in DOMAIN game.impostors :
              /\ game'.impostors[i].x = game.impostors[i].x
              /\ game'.impostors[i].y = game.impostors[i].y
              /\ game'.impostors[i].width = game.impostors[i].width
              /\ game'.impostors[i].height = game.impostors[i].height]_vars

\* The base award of a target, by its difficulty.
BasePoints(difficulty) ==
    IF difficulty = "easy" THEN 10 ELSE IF difficulty = "medium" THEN 25 ELSE 50

\* b is max(0, floor((300 - s) / 10)) for s = ms / 1000 seconds.
IsBonus(b, ms) ==
    IF 300000 - ms >= 10000
    THEN 10000 * b <= 300000 - ms /\ 300000 - ms < 10000 * (b + 1)
    ELSE b = 0

\* Times after which the bonus is looked at again.
LaterBy == {1, 9999, 10000, 10001, 150000, 300000}

\* C20: a successful findImpostor adds to the finder's score exactly base + bonus,
\* base being 10, 25 or 50 for an easy, medium or hard target and bonus being
\* max(0, floor((300 - seconds since the player started) / 10)); 0 <= bonus <= 30,
\* and a later find by the same player would get no greater a bonus.  Every score
\* is >= 0 and no operation lowers a score.
C20_Score ==
    /\ []((variant = "ho" /\ game # Null) => \A id \in Joined(game) : game.players[id].score >= 0)
    /\ [][(variant = "ho" /\ game # Null) =>
            /\ \A id \in Joined(game) : game'.players[id].score >= game.players[id].score
            /\ (Did("find") /\ last'.flag) =>
                  LET p == last'.by
                      hit == {i \in DOMAIN game.impostors :
                                 ~game.impostors[i].found /\ game'.impostors[i].found}
                      ms == now - game.players[p].timeStarted
                  IN \E i \in hit :
                        LET bonus == game'.players[p].score - game.players[p].score
                                         - BasePoints(game.impostors[i].difficulty)
                        IN /\ hit = {i}
                           /\ InBox(game, i, last'.arg)
                           /\ bonus >= 0 /\ bonus <= 30
                           /\ IsBonus(bonus, ms)
                           /\ \A d \in LaterBy :
                                 TimeBonus(game.players[p].timeStarted, now + d) <= bonus]_vars

\* A medium target is found 150 s after the finder started: 25 + 15 points.
C20_Witness ==
    /\ variant = "ho"
    /\ last.op = "find"
    /\ last.flag
    /\ last.arg = 4
    /\ game.impostors[4].difficulty = "medium"
    /\ game.impostors[4].foundAt - game.players[last.by].timeStarted = 150000
    /\ game.players[last.by].score = 25 + 15

\* C21: the score that a successful findImpostor returns is the score delta of
\* the call: the finder's score after the call less the finder's score before it.
C21_ReturnsScoreDelta ==
    [][(variant = "ho" /\ Did("find") /\ last'.flag) =>
        last'.val = game'.players[last'.by].score - game.players[last'.by].score]_vars

AllFound(g) == \A i \in DOMAIN g.impostors : g.impostors[i].found

\* C22: a successful findImpostor ends the session exactly when, with the target
\* marked, every target of the session is found, by whatever players: then phase
\* "ended", gameEndTime recorded, winner the caller, the caller's timeCompleted set
\* and the leaderboard recomputed; a find that leaves a target unfound leaves the
\* phase "playing" and none of these set.  The caller holds all targets only when
\* all targets are found.
C22_WinOnFind ==
    [][(variant = "ho" /\ Did("find") /\ last'.flag) =>
        LET p == last'.by
        IN /\ IF AllFound(game')
              THEN /\ game'.phase = "ended"
                   /\ game'.gameEndTime = now
                   /\ game'.winner = p
                   /\ game'.players[p].timeCompleted = now
                   /\ IsLeaderboardOf(game'.leaderboard, game')
              ELSE /\ game'.phase = "playing"
                   /\ game'.gameEndTime = game.gameEndTime
                   /\ game'.winner = game.winner
                   /\ game'.players[p].timeCompleted = game.players[p].timeCompleted
                   /\ game'.leaderboard = game.leaderboard
           /\ Len(game'.players[p].foundImpostors) = Len(game'.impostors) => AllFound(game')]_vars

\* The last target is found by a player who did not find them all: the session
\* ends and the finder of the last one wins.
C22_Witness ==
    /\ variant = "ho"
    /\ last.op = "find"
    /\ last.flag
    /\ game.phase = "ended"
    /\ AllFound(game)
    /\ game.winner = last.by
    /\ Len(game.players[last.by].foundImpostors) < Len(game.impostors)

\* No target of g that is not found yet has the click at place c in its box.
NoMatch(g, c) == ~\E i \in DOMAIN g.impostors : ~g.impostors[i].found /\ InBox(g, i, c)

\* C23: findImpostor is a soft no-op when it cannot match: for a caller that is no
\* player of the session, in a phase other than "playing", or for a click that is
\* in the box of no target still to be found, it returns found = false with the
\* current session and writes nothing; the stored session after such a call is
\* the one before it.
C23_SoftNoOp ==
    /\ [](variant = "ho" /\ game # Null =>
            \A p \in Anyone : \A c \in DOMAIN ClickPoints :
                LET r == HOFindImpostor(game, p, ClickPoints[c][1], ClickPoints[c][2], now)
                IN (p \notin Joined(game) \/ game.phase # "playing" \/ NoMatch(game, c)) =>
                       r.ok /\ ~r.flag /\ ~r.write /\ r.g = game)
    /\ [][(variant = "ho" /\ Did("find") /\ ~last'.flag) => game' = game]_vars

\* A click just right of the first target's box, which is still to be found, by
\* players one of whom has scored already: nothing is found.
C23_Witness ==
    /\ variant = "ho"
    /\ game.phase = "playing"
    /\ last.op = "find"
    /\ last.arg = 3
    /\ last.ok
    /\ ~last.flag
    /\ ~game.impostors[1].found
    /\ \E p \in Joined(game) : game.players[p].score > 0

\* board lists every player of g once; scores descend; among equal scores an
\* earlier timeCompleted goes first and an entry without one goes after those
\* that have one.
IsRankingOf(board, g) ==
    /\ Len(board) = Cardinality(Joined(g))
    /\ {board[i].playerId : i \in DOMAIN board} = Joined(g)
    /\ \A i \in DOMAIN board : \A j \in DOMAIN board :
          i < j =>
              LET ti == g.players[board[i].playerId].timeCompleted
                  tj == g.players[board[j].playerId].timeCompleted
              IN /\ board[i].score = g.players[board[i].playerId].score
                 /\ board[i].score >= board[j].score
                 /\ board[i].score = board[j].score =>
                        /\ (ti > 0 /\ tj > 0) => ti <= tj
                        /\ tj > 0 => ti > 0

\* C24: updateLeaderboard, applied to a stored hidden-object session, produces one
\* entry per player, ordered by score descending; among players of equal score an
\* earlier timeCompleted comes first, and a player without a completion time comes
\* after every player of the same score that has one.
C24_LeaderboardOrder ==
    (variant = "ho" /\ game # Null) =>
        IsRankingOf(updateLeaderboard(game).leaderboard, game)

\* C25: in every stored session of either build the host is one of the players,
\* and no operation on a stored session (join, start, find, tick, completeTask,
\* meeting, eliminate, vote) changes the host or removes the session.
C25_HostInvariant ==
    /\ [](game # Null => game.host \in Joined(game))
    /\ [][game # Null => (game' # Null /\ game'.host = game.host)]_vars

\* A social-deduction session in which the second player has just been
\* eliminated: the first player is still its host.
C25_Witness ==
    /\ variant = "sd"
    /\ game.phase = "discussion"
    /\ last.op = "eliminate"
    /\ game.players[2].status = "dead"
    /\ game.host = 1
    /\ PlayerCount(game) > 1

\* C26: with one request at a time, the players of a stored session are never
\* removed: every step keeps the session and all its player ids; in the
\* social-deduction build a status is "alive" or "dead", and a dead player stays
\* dead.
C26_PlayersStay ==
    /\ []((variant = "sd" /\ game # Null) =>
            \A id \in Joined(game) : game.players[id].status \in {"alive", "dead"})
    /\ [][game # Null =>
            /\ game' # Null
            /\ Joined(game) \subseteq Joined(game')
            /\ variant = "sd" =>
                   \A id \in Joined(game) :
                       game.players[id].status = "dead" => game'.players[id].status = "dead"]_vars

\* A vote is open and one of the two votes came in; the second player was
\* eliminated before the meeting and is still a player, dead.
C26_Witness ==
    /\ variant = "sd"
    /\ game.phase = "voting"
    /\ last.op = "vote"
    /\ last.by = 1
    /\ 2 \in Joined(game)
    /\ game.players[2].status = "dead"

\* C27: updates are lost under last write wins.  When a join that read the session
\* earlier writes, the stored session holds the players it read and the joiner and
\* no one else: a player stored since that read, by a join that was answered with
\* success, is no longer a player of the stored session, and the later join is
\* answered with success as well.
C27_LostUpdate ==
    [][\A s \in Slots :
          (reqs[s].pc = "read" /\ reqs'[s].pc = "done" /\ last'.by = reqs[s].by) =>
              /\ last'.ok
              /\ Joined(game') = Joined(reqs[s].snap) \cup {reqs[s].by}
              /\ \A id \in Joined(game) \ Joined(reqs[s].snap) :
                     id # reqs[s].by => id \notin Joined(game')
              /\ (last.op = "join" /\ last.ok /\ last.by \notin Joined(reqs[s].snap)
                     /\ last.by \notin {0, reqs[s].by}) =>
                     last.by \in Joined(game) /\ last.by \notin Joined(game')]_vars

\* Players 2 and 3 asked to join while only the host was stored; both joins were
\* answered with success, and the session stored by the later one has no player 2.
C27_Witness ==
    /\ game # Null
    /\ \A s \in Slots : reqs[s].pc = "done"
    /\ last.op = "join"
    /\ last.ok
    /\ last.by = 3
    /\ Joined(game) = {1, 3}

\* The results of joinGame, startGame, callEmergencyMeeting, eliminatePlayer and
\* castVote on session g, for the callers and targets in ids.
NullableResults(g, ids) ==
    {JoinGameOf(g, p, now) : p \in ids}
        \cup {StartGameOf(g, p, d, now) : p \in ids, d \in StartDraws(g)}
        \cup (IF variant = "sd"
              THEN {SDCallEmergencyMeeting(g, p) : p \in ids}
                       \cup {SDEliminatePlayer(g, p, t) : p \in ids, t \in ids}
                       \cup {SDCastVote(g, p, t) : p \in ids, t \in ids \cup {0}}
              ELSE {})

\* C28: a rejected operation leaves the session as it was: a joinGame, startGame,
\* callEmergencyMeeting, eliminatePlayer or castVote that returns null, and a
\* completeTask that returns taskCompleted = false, write nothing, so that the
\* stored session after the call is the one before it; on a post without a session
\* every one of them returns the rejection and no session is stored.
C28_RejectedUnmodified ==
    /\ [](LET ids == Joined(game) \cup {1, 2, GhostId}
          IN /\ \A r \in NullableResults(game, ids) :
                    /\ ~r.ok => ~r.write
                    /\ game = Null => ~r.ok
             /\ variant = "sd" =>
                    \A p \in ids :
                        LET r == SDCompleteTask(game, p)
                        IN /\ ~r.flag => ~r.write
                           /\ game = Null => ~r.flag /\ ~r.ok)
    /\ [][/\ (last'.op \in {"join", "start", "meeting", "eliminate", "vote"}
                 /\ now' = now /\ ~last'.ok) => game' = game
          /\ (Did("task") /\ ~last'.flag) => game' = game]_vars

\* The meeting that a player asks for during a meeting is rejected; the stored
\* session keeps the caller of the meeting that is on.
C28_Witness ==
    /\ variant = "sd"
    /\ game.phase = "discussion"
    /\ last.op = "meeting"
    /\ ~last.ok
    /\ game.meetingCaller # 0

\* Every target of g is found, and by player p.
FoundAllAlone(g, p) ==
    \A i \in DOMAIN g.impostors : g.impostors[i].found /\ g.impostors[i].foundBy = p

\* C29: the hidden-object session from end to end.  Created by host 1 and joined
\* by player 2, the session is started by 1 with its two players and is then
\* "playing"; while it is playing, player 1 clicking an easy target that is not
\* found yet at its exact coordinates gets found = true and 10 points plus a bonus
\* that is not negative; once player 1 alone has found every target the phase is
\* "ended" and the winner is player 1.
C29_Scenario ==
    /\ []((variant = "ho" /\ game # Null /\ game.phase = "waiting"
              /\ game.host = 1 /\ Joined(game) = {1, 2}) =>
            LET r == HOStartGame(game, 1, now)
            IN r.ok /\ r.write /\ r.g.phase = "playing")
    /\ []((variant = "ho" /\ game # Null /\ game.phase = "playing" /\ 1 \in Joined(game)) =>
            \A i \in DOMAIN game.impostors :
                (game.impostors[i].difficulty = "easy" /\ ~game.impostors[i].found) =>
                    LET r == HOFindImpostor(game, 1, game.impostors[i].x, game.impostors[i].y, now)
                        bonus == r.g.players[1].score - game.players[1].score - 10
                    IN /\ r.flag /\ r.write
                       /\ r.g.impostors[i].found /\ r.g.impostors[i].foundBy = 1
                       /\ bonus >= 0)
    /\ []((variant = "ho" /\ game # Null /\ FoundAllAlone(game, 1)) =>
            game.phase = "ended" /\ game.winner = 1)
    /\ [][(variant = "ho" /\ Did("start") /\ last'.ok) => game'.phase = "playing"]_vars

\* Host 1 and player 2 are the players; player 1 has just found the last target,
\* having found all the others, and the session has ended with 1 as its winner.
C29_Witness ==
    /\ variant = "ho"
    /\ game # Null
    /\ Joined(game) = {1, 2}
    /\ game.host = 1
    /\ last.op = "find"
    /\ last.by = 1
    /\ last.flag
    /\ FoundAllAlone(game, 1)
    /\ game.phase = "ended"
    /\ game.winner = 1
    /\ game.players[1].score >= 380

\* The targets whose records differ between g and h.
ChangedTargets(g, h) == {i \in DOMAIN g.impostors : h.impostors[i] # g.impostors[i]}

\* h has the players of g, and the record of every player but p is as in g.
OthersUntouched(g, h, p) ==
    /\ Joined(h) = Joined(g)
    /\ \A q \in Joined(g) \ {p} : h.players[q] = g.players[q]

\* The click positions of the frame: the corner of the first target, of the
\* last one, and of the first one that is not found yet, a point just outside the
\* first target, and a point in no box.
FrameClicks ==
    {CornerOf(i) : i \in NextUnfound(game) \cup {1, Len(IMPOSTOR_LOCATIONS)}}
        \cup {3, Len(PlayClickPoints)}

\* C30: the frame of findImpostor.  In every state, for every caller p and every
\* click position, the session the call returns has the record (score,
\* foundImpostors, timeStarted, timeCompleted) of every player other than p as it
\* was, and differs in at most one target (in exactly one when the call finds);
\* with one request at a time so does the session stored after the call.
C30_FindFrame ==
    /\ []((variant = "ho" /\ game # Null) =>
            \A p \in Anyone : \A c \in FrameClicks :
                \A r \in {HOFindImpostor(game, p, ClickPoints[c][1], ClickPoints[c][2], now)} :
                    /\ OthersUntouched(game, r.g, p)
                    /\ Cardinality(ChangedTargets(game, r.g)) <= 1)
    /\ [][(variant = "ho" /\ game # Null /\ Did("find")) =>
            /\ OthersUntouched(game, game', last'.by)
            /\ Cardinality(ChangedTargets(game, game')) <= 1
            /\ last'.flag <=> Cardinality(ChangedTargets(game, game')) = 1]_vars

\* Player 2 has just found the last target and the session has ended; player 1,
\* who found others, has the score of those finds and no completion time.
C30_Witness ==
    /\ variant = "ho"
    /\ last.op = "find"
    /\ last.by = 2
    /\ last.flag
    /\ game.phase = "ended"
    /\ game.players[1].foundImpostors # <<>>
    /\ game.players[1].score > 0
    /\ game.players[1].timeCompleted = -1
    /\ game.players[2].timeCompleted = now

\* Two boxes share a point (their edges included).
Overlap(a, b) ==
    /\ a.x <= b.x + b.width /\ b.x <= a.x + a.width
    /\ a.y <= b.y + b.height /\ b.y <= a.y + a.height

\* The targets of g whose box holds the click at place c of ClickPoints.
BoxesAt(g, c) == {i \in DOMAIN g.impostors : InBox(g, i, c)}

\* C31: the hit test.  The boxes of the twelve targets are pairwise disjoint and
\* the stored targets keep them, so a click is in the box of at most one target;
\* findImpostor picks the first target of the list that is not found yet and whose
\* box holds the click, edges included (none when there is no such target), and a
\* find marks exactly that target.
C31_HitTest ==
    /\ [](\A i \in DOMAIN IMPOSTOR_LOCATIONS : \A j \in DOMAIN IMPOSTOR_LOCATIONS :
             i < j => ~Overlap(IMPOSTOR_LOCATIONS[i], IMPOSTOR_LOCATIONS[j]))
    /\ []((variant = "ho" /\ game # Null) =>
            /\ \A i \in DOMAIN game.impostors :
                   /\ game.impostors[i].x = IMPOSTOR_LOCATIONS[i].x
                   /\ game.impostors[i].y = IMPOSTOR_LOCATIONS[i].y
                   /\ game.impostors[i].width = IMPOSTOR_LOCATIONS[i].width
                   /\ game.impostors[i].height = IMPOSTOR_LOCATIONS[i].height
            /\ \A c \in DOMAIN ClickPoints :
                   LET open == {i \in BoxesAt(game, c) : ~game.impostors[i].found}
                       first == FoundImpostor(game, ClickPoints[c][1], ClickPoints[c][2])
                   IN /\ Cardinality(BoxesAt(game, c)) <= 1
                      /\ IF open = {} THEN first = 0
                         ELSE first \in open /\ \A j \in open : first <= j)
    /\ [][(variant = "ho" /\ game # Null /\ Did("find") /\ last'.flag) =>
            \E i \in BoxesAt(game, last'.arg) :
                /\ ~game.impostors[i].found
                /\ game'.impostors[i].found
                /\ game'.impostors[i].foundBy = last'.by
                /\ \A j \in DOMAIN game.impostors \ {i} : game'.impostors[j] = game.impostors[j]]_vars

\* A click on the bottom right corner of the first target's box, (23,37), found it.
C31_Witness ==
    /\ variant = "ho"
    /\ last.op = "find"
    /\ last.arg = 2
    /\ last.flag
    /\ game.impostors[1].found
    /\ game.impostors[1].foundBy = last.by

\* C32: a social-deduction session leaves phase "waiting" only through startGame:
\* a completeTask, eliminatePlayer, castVote, callEmergencyMeeting or
\* updateGamePhase call made while the phase is "waiting" changes neither the
\* phase nor the winner nor any player's tasksCompleted.
C32_WaitingUntilStart ==
    [][(variant = "sd" /\ game # Null /\ game.phase = "waiting" /\ now' = now
            /\ last'.op \in {"task", "eliminate", "vote", "meeting", "phase"}) =>
          /\ game'.phase = "waiting"
          /\ game'.winner = game.winner
          /\ \A id \in Joined(game) :
                 game'.players[id].tasksCompleted = game.players[id].tasksCompleted]_vars

\* C33: in the social-deduction build, with one request at a time, every stored
\* session whose phase is not "ended" has fewer alive impostors than alive
\* crewmates: an elimination or a tally that leaves as many impostors as crewmates
\* ends the session with the impostors as winners.
C33_ImpostorsFewer ==
    /\ []((variant = "sd" /\ game # Null /\ game.phase # "ended") =>
            Cardinality(AliveOf(game, "impostor")) < Cardinality(AliveOf(game, "crewmate")))
    /\ [][(variant = "sd" /\ game # Null /\ last'.op \in {"eliminate", "vote"} /\ now' = now
              /\ Cardinality(AliveOf(game', "impostor")) >= Cardinality(AliveOf(game', "crewmate"))
              /\ game' # game) =>
            game'.phase = "ended" /\ game'.winner = "impostors"]_vars

\* After an elimination the vote went against the second player, a crewmate,
\* whose death left one impostor and one crewmate: the tally ended the session
\* for the impostors.
C33_Witness ==
    /\ variant = "sd"
    /\ last.op = "vote"
    /\ game.phase = "ended"
    /\ game.winner = "impostors"
    /\ game.players[2].status = "dead"
    /\ game.players[2].role = "crewmate"
    /\ game.eliminatedPlayer = 2
    /\ Cardinality(AliveOf(game, "impostor")) = 1
    /\ Cardinality(AliveOf(game, "crewmate")) = 1

\* C34: in the social-deduction build every stored session in phase "playing",
\* "discussion" or "voting" has an alive impostor; a started session without one
\* is "ended" with the crewmates as winners.
C34_ImpostorAlive ==
    (variant = "sd" /\ game # Null /\ game.phase \in {"playing", "discussion", "voting"}) =>
        AliveOf(game, "impostor") # {}

\* C35: in the social-deduction build, whenever the phase becomes "voting" every
\* player has hasVoted = false and no votedFor, so that a tally counts only the
\* votes cast in the voting phase it closes.
C35_VotingStartsClean ==
    [][(variant = "sd" /\ game # Null /\ game.phase # "voting" /\ game'.phase = "voting") =>
          VotesCleared(game')]_vars

\* C36: in the hidden-object build, whenever a session is "ended" with a winner,
\* the winner is a player whose score is the highest of all players, whether the
\* timer ended the session or the find of the last target did.
C36_WinnerHasTopScore ==
    (variant = "ho" /\ game # Null /\ game.phase = "ended" /\ game.winner # 0) =>
        /\ game.winner \in Joined(game)
        /\ game.players[game.winner].score = TopScore(game)

\* The requests of SpecRouteRace that were answered with success.
Succeeded == {s \in Slots : reqs[s].pc = "done" /\ reqs[s].ok}

\* C37: POST /api/join requests that interleave on a post without a session: at
\* most one of them creates the session, the host of the stored session does not
\* change once a request was answered with success, and every caller answered
\* with success is a player of the stored session.
C37_JoinOrCreate ==
    /\ [](Cardinality({s \in Succeeded : reqs[s].created}) <= 1)
    /\ [](\A s \in Succeeded : game # Null /\ reqs[s].by \in Joined(game))
    /\ [][(Succeeded # {} /\ game # Null) => game'.host = game.host]_vars

\* C38: of two findImpostor requests of different players that interleave and
\* click the same target, at most one is answered found = true, and the one that
\* is stays in the stored session: when a find of target i by player p was
\* answered found = true and the request of another player, whose click is in the
\* box of target i too, then finishes, that request is answered found = false,
\* the stored target i stays found by p and p keeps the score of the find.
C38_ConcurrentFinds ==
    [][\A s \in Slots :
          (variant = "ho" /\ game # Null /\ last.op = "find" /\ last.flag
              /\ reqs[s].pc = "read" /\ reqs'[s].pc = "done" /\ reqs[s].by # last.by) =>
              \A i \in DOMAIN game.impostors :
                  (InBox(game, i, last.arg) /\ InBox(game, i, reqs[s].arg)
                      /\ game.impostors[i].foundBy = last.by) =>
                      /\ ~last'.flag
                      /\ game'.impostors[i].found
                      /\ game'.impostors[i].foundBy = last.by
                      /\ game'.players[last.by].score = game.players[last.by].score]_vars

\* C39: with the tick taken again and again, a social-deduction session in phase
\* "discussion" gets to "voting" or "ended", and one in phase "voting" gets to
\* "playing" or "ended", whatever votes, eliminations, tasks and meeting calls
\* arrive between the ticks.
C39_CountdownsEnd ==
    /\ (variant = "sd" /\ game.phase = "discussion") ~> (game.phase \in {"voting", "ended"})
    /\ (variant = "sd" /\ game.phase = "voting") ~> (game.phase \in {"playing", "ended"})

\* The voting countdown has run out after an elimination made during the vote
\* sent the session through a second discussion: the session is playing again.
C39_Witness ==
    /\ variant = "sd"
    /\ game.phase = "playing"
    /\ last.op = "phase"
    /\ game.votingTimeLeft = 0
    /\ game.discussionTimeLeft = 0
    /\ game.eliminatedPlayer = 2
    /\ game.players[2].status = "dead"
    /\ game.players[1].tasksCompleted > 0

\* C40: with the clock running and the tick taken again and again, a hidden-object
\* session in phase "playing" gets to "ended", whether or not a target is found,
\* and an updateGameTimer call made 300 seconds or more after gameStartTime on a
\* session in phase "playing" leaves it in phase "ended".
C40_PlayingEnds ==
    /\ (variant = "ho" /\ game.phase = "playing") ~> (game.phase = "ended")
    /\ [][(variant = "ho" /\ Did("timer") /\ game.phase = "playing"
              /\ now - game.gameStartTime >= TIME_LIMIT * 1000) =>
              game'.phase = "ended"]_vars

\* The time of a session started after the epoch has run out with no target found:
\* the tick has ended the session, without a winner.
C40_Witness ==
    /\ variant = "ho"
    /\ game.phase = "ended"
    /\ last.op = "timer"
    /\ game.gameStartTime > Epoch
    /\ game.gameEndTime >= game.gameStartTime + TIME_LIMIT * 1000
    /\ game.timeLeft = 0
    /\ game.winner = 0
    /\ \A i \in DOMAIN game.impostors : ~game.impostors[i].found

====
